---- MODULE Spec2Model ----
(***************************************************************************)
(* The attribute configuration loader of tb-performance-tests              *)
(* (src/config/attribute_loader.py): the YAML store with its per-loader    *)
(* cache and environment overlays, asset resolution with override          *)
(* selection and dynamic post-processing, and device resolution with the   *)
(* value processor, template expansion and flattening.  With it the        *)
(* configuration validator (src/config-v1/config-validator.py), the two    *)
(* cleaners (src/cleanup-scenario.py, src/test-scenarios/                  *)
(* cleanup-scenario.py) and the two provisioners (src/provision-scenario.py,*)
(* src/test-scenarios/provision-scenario.py) that talk to the platform.    *)
(*                                                                         *)
(* Encoding of Python/YAML values: a value is a pair <<tag, payload>>.     *)
(*   <<"str", s>>    s a sequence of chunks; the characters "{", "}" and   *)
(*                   "_" are always chunks of their own, so substring      *)
(*                   tests and replacement on them are exact               *)
(*   <<"int", n>>    <<"float", n>>   <<"null", <<>> >>                    *)
(*   <<"list", q>>   q a sequence of values                                *)
(*   <<"dict", d>>   d a sequence of <<key, value>> pairs with distinct    *)
(*                   keys, in insertion order, keys being chunk sequences  *)
(***************************************************************************)
EXTENDS Integers, Sequences, FiniteSets, TLC

VARIABLES files, cache, reads, fsops, last,
          sent, dry_run, stats, created_entities

vars == <<files, cache, reads, fsops, last, sent, dry_run, stats, created_entities>>

(* the state of the tools that talk to the platform: the HTTP exchanges of  *)
(* the object so far (request and answer), the cleaner's dry_run flag and   *)
(* statistics, the provisioner's created_entities *)
platform == <<sent, dry_run, stats, created_entities>>

----------------------------------------------------------------------------
(* Values *)

StrV(s) == <<"str", s>>
IntV(n) == <<"int", n>>
FloatV(n) == <<"float", n>>
None == <<"null", <<>> >>
ListV(q) == <<"list", q>>
DictV(d) == <<"dict", d>>

IsStr(v) == v[1] = "str"
IsList(v) == v[1] = "list"
IsDict(v) == v[1] = "dict"
IsFloat(v) == v[1] = "float"
IsNone(v) == v[1] = "null"

(* Python truthiness of a scalar or container *)
Truthy(v) ==
    CASE v[1] = "null" -> FALSE
      [] v[1] = "str" -> v[2] # <<>>
      [] v[1] = "int" -> v[2] # 0
      [] v[1] = "float" -> v[2] # 0
      [] v[1] = "list" -> v[2] # <<>>
      [] v[1] = "dict" -> v[2] # <<>>
      [] OTHER -> TRUE

(* dict primitives on the pair sequence d *)
DictKeys(d) == {d[i][1] : i \in DOMAIN d}
DictHas(d, k) == \E i \in DOMAIN d : d[i][1] = k
DictGet(d, k) == d[CHOOSE i \in DOMAIN d : d[i][1] = k][2]
(* d[k] = v: an existing key keeps its position, a new key goes last *)
DictSet(d, k, v) ==
    IF DictHas(d, k)
    THEN [i \in DOMAIN d |-> IF d[i][1] = k THEN <<k, v>> ELSE d[i]]
    ELSE Append(d, <<k, v>>)
(* d.get(k, {}) *)
DictGetOrEmpty(d, k) == IF DictHas(d, k) THEN DictGet(d, k) ELSE DictV(<<>>)

RECURSIVE DictUpdate(_, _)
(* d.update(o): the entries of o written in o's order *)
DictUpdate(d, o) ==
    IF o = <<>> THEN d
    ELSE DictUpdate(DictSet(d, o[1][1], o[1][2]), Tail(o))

----------------------------------------------------------------------------
(* _merge_configs *)

RECURSIVE MergeInto(_, _)
(* the loop of _merge_configs: result is the copy of base being written,   *)
(* override the entries still to visit                                     *)
MergeInto(result, override) ==
    IF override = <<>> THEN result
    ELSE LET key == override[1][1]
             value == override[1][2]
             merged ==
                 IF IsDict(value) /\ DictHas(result, key) /\ IsDict(DictGet(result, key))
                 THEN DictV(MergeInto(DictGet(result, key)[2], value[2]))
                 ELSE value
         IN MergeInto(DictSet(result, key, merged), Tail(override))

MergeReplaceOnly(base, override) == DictV(DictUpdate(base[2], override[2]))

(* _merge_configs(base, override) on two dict values *)
_merge_configs(base, override) == DictV(MergeInto(base[2], override[2]))

(* the object passed as base after _merge_configs returned: result is      *)
(* base.copy(), so every write went to the copy *)
MergeBaseAfter(base, override) == base

----------------------------------------------------------------------------
(* Storage and loaders *)

(* the three documents a caller can ask for: (root directory, relative path) *)
AssetFile == <<"attributes", "assets/room.yaml">>
DeviceFile == <<"attributes", "devices/ffu.yaml">>
TelemetryFile == <<"telemetry", "devices/ffu.yaml">>
Requests == {AssetFile, DeviceFile, TelemetryFile}

(* the loaders: the module-level one (environment None) and one constructed *)
(* with environment="dev" *)
Loaders == {"default", "dev"}
environment(l) == IF l = "dev" THEN "dev" ELSE ""

(* os.path.join(root, [environment,] relative_path); "" is the base file *)
PathOf(req, env) == <<req[1], env, req[2]>>
Paths == {PathOf(req, env) : req \in Requests, env \in {"", "dev"}}

NoFile == <<"nofile", <<>> >>
NotCached == <<"notcached", <<>> >>
NoResult == <<"noresult", <<>> >>

exists(fs, path) == fs[path] # NoFile

(* the path _load_yaml resolves: the environment file if the loader has an  *)
(* environment and that file exists, else the base file *)
ResolvePath(fs, l, req) ==
    IF environment(l) # ""
    THEN IF exists(fs, PathOf(req, environment(l)))
         THEN PathOf(req, environment(l))
         ELSE PathOf(req, "")
    ELSE PathOf(req, "")

ParsedEnvFirst(fs, l, req) ==
    LET file_path == ResolvePath(fs, l, req)
        base_config_path == PathOf(req, "")
    IN IF environment(l) # "" /\ exists(fs, file_path) /\ exists(fs, base_config_path)
       THEN _merge_configs(fs[file_path], fs[base_config_path])
       ELSE fs[file_path]

(* the document _load_yaml builds on a cache miss, the file at the resolved *)
(* path being there: parsed, then merged over the base file if the loader   *)
(* has an environment and the base file exists *)
ParsedConfig(fs, l, req) ==
    LET file_path == ResolvePath(fs, l, req)
        base_config_path == PathOf(req, "")
    IN IF environment(l) # "" /\ exists(fs, file_path) /\ exists(fs, base_config_path)
       THEN _merge_configs(fs[base_config_path], fs[file_path])
       ELSE fs[file_path]

LoadNoCache(fs, c, l, req) ==
    LET file_path == ResolvePath(fs, l, req)
    IN IF ~exists(fs, file_path)
       THEN [err |-> TRUE, hit |-> FALSE, path |-> file_path,
             config |-> NoResult, cache |-> c]
       ELSE [err |-> FALSE, hit |-> FALSE, path |-> file_path,
             config |-> ParsedConfig(fs, l, req),
             cache |-> [c EXCEPT ![file_path] = ParsedConfig(fs, l, req)]]

LoadDefaulted(fs, c, l, req) ==
    LET file_path == ResolvePath(fs, l, req)
    IN IF c[file_path] # NotCached
       THEN [err |-> FALSE, hit |-> TRUE, path |-> file_path,
             config |-> c[file_path], cache |-> c]
       ELSE IF ~exists(fs, file_path)
       THEN [err |-> FALSE, hit |-> FALSE, path |-> file_path,
             config |-> DictV(<<>>), cache |-> [c EXCEPT ![file_path] = DictV(<<>>)]]
       ELSE [err |-> FALSE, hit |-> FALSE, path |-> file_path,
             config |-> ParsedConfig(fs, l, req),
             cache |-> [c EXCEPT ![file_path] = ParsedConfig(fs, l, req)]]

(* _load_yaml / _load_telemetry_yaml of loader l with cache c on storage fs: *)
(* err (open() raised), hit (served from the cache), the cache key, the     *)
(* returned document and the loader's cache afterwards *)
_load_yaml(fs, c, l, req) ==
    LET file_path == ResolvePath(fs, l, req)
    IN IF c[file_path] # NotCached
       THEN [err |-> FALSE, hit |-> TRUE, path |-> file_path,
             config |-> c[file_path], cache |-> c]
       ELSE IF ~exists(fs, file_path)
       THEN [err |-> TRUE, hit |-> FALSE, path |-> file_path,
             config |-> NoResult, cache |-> c]
       ELSE [err |-> FALSE, hit |-> FALSE, path |-> file_path,
             config |-> ParsedConfig(fs, l, req),
             cache |-> [c EXCEPT ![file_path] = ParsedConfig(fs, l, req)]]

TelemetryWithoutBase(fs, c, l, req) ==
    LET file_path == ResolvePath(fs, l, req)
    IN IF c[file_path] # NotCached
       THEN [err |-> FALSE, hit |-> TRUE, path |-> file_path,
             config |-> c[file_path], cache |-> c]
       ELSE IF ~exists(fs, file_path)
       THEN [err |-> TRUE, hit |-> FALSE, path |-> file_path,
             config |-> NoResult, cache |-> c]
       ELSE [err |-> FALSE, hit |-> FALSE, path |-> file_path,
             config |-> fs[file_path], cache |-> [c EXCEPT ![file_path] = fs[file_path]]]

(* _load_telemetry_yaml: the same steps under the telemetry root *)
_load_telemetry_yaml(fs, c, l, req) ==
    LET file_path == ResolvePath(fs, l, req)
        base_config_path == PathOf(req, "")
        config == IF environment(l) # "" /\ exists(fs, file_path)
                     /\ exists(fs, base_config_path)
                  THEN _merge_configs(fs[base_config_path], fs[file_path])
                  ELSE fs[file_path]
    IN IF c[file_path] # NotCached
       THEN [err |-> FALSE, hit |-> TRUE, path |-> file_path,
             config |-> c[file_path], cache |-> c]
       ELSE IF ~exists(fs, file_path)
       THEN [err |-> TRUE, hit |-> FALSE, path |-> file_path,
             config |-> NoResult, cache |-> c]
       ELSE [err |-> FALSE, hit |-> FALSE, path |-> file_path,
             config |-> config, cache |-> [c EXCEPT ![file_path] = config]]

----------------------------------------------------------------------------
(* Asset resolution *)

(* keys: K for a name without underscore, Key2 for a name of two words *)
K(name) == <<name>>
Key2(a, b) == <<a, "_", b>>
S(text) == StrV(<<text>>)

(* `v in d` for a scalar v and a dict d with string keys *)
InDict(v, d) == IsStr(v) /\ DictHas(d, v[2])

OverrideKeyReversed(attributes, config) ==
    LET overrides == DictGetOrEmpty(config[2], K("overrides"))[2]
        matches(k) == DictHas(attributes, k) /\ InDict(DictGet(attributes, k), overrides)
    IN IF matches(Key2("site", "type")) THEN DictGet(attributes, Key2("site", "type"))
       ELSE IF matches(Key2("building", "type")) THEN DictGet(attributes, Key2("building", "type"))
       ELSE IF matches(K("classification")) THEN DictGet(attributes, K("classification"))
       ELSE None

(* _get_override_key(attributes, config): the value of the first of        *)
(* classification, building_type, site_type in attributes that is a key of *)
(* config's overrides, else None *)
_get_override_key(attributes, config) ==
    LET overrides == DictGetOrEmpty(config[2], K("overrides"))[2]
        matches(k) == DictHas(attributes, k) /\ InDict(DictGet(attributes, k), overrides)
    IN IF matches(K("classification")) THEN DictGet(attributes, K("classification"))
       ELSE IF matches(Key2("building", "type")) THEN DictGet(attributes, Key2("building", "type"))
       ELSE IF matches(Key2("site", "type")) THEN DictGet(attributes, Key2("site", "type"))
       ELSE None

(* random.randint(1, 730) of _process_dynamic_values *)
AutoDaysMin == 1
AutoDaysMax == 730
(* the draws followed: both ends and a value next to one *)
DaysAgoDraws == {AutoDaysMin, AutoDaysMin + 1, AutoDaysMax}

(* (datetime.now() - timedelta(days=d)).strftime('%Y-%m-%dT%H:%M:%SZ'): the *)
(* text of the instant d days before the call *)
DaysAgoText(d) == <<"timestr", d>>

DynamicKeepsAuto(attributes, days_ago) ==
    IF DictHas(attributes, Key2("total", "buildings"))
       /\ IsNone(DictGet(attributes, Key2("total", "buildings")))
    THEN DictSet(attributes, Key2("total", "buildings"), IntV(1))
    ELSE attributes

DynamicKeepsNull(attributes, days_ago) ==
    IF DictHas(attributes, Key2("installation", "date"))
       /\ DictGet(attributes, Key2("installation", "date")) = S("auto")
    THEN DictSet(attributes, Key2("installation", "date"), DaysAgoText(days_ago))
    ELSE attributes

(* _process_dynamic_values(attributes), days_ago being the random draw *)
_process_dynamic_values(attributes, days_ago) ==
    LET p1 == IF DictHas(attributes, Key2("total", "buildings"))
                 /\ IsNone(DictGet(attributes, Key2("total", "buildings")))
              THEN DictSet(attributes, Key2("total", "buildings"), IntV(1))
              ELSE attributes
    IN IF DictHas(p1, Key2("installation", "date"))
          /\ DictGet(p1, Key2("installation", "date")) = S("auto")
       THEN DictSet(p1, Key2("installation", "date"), DaysAgoText(days_ago))
       ELSE p1

RECURSIVE ApplyContextKeepsDefault(_, _)
ApplyContextKeepsDefault(attributes, context) ==
    IF context = <<>> THEN attributes
    ELSE ApplyContextKeepsDefault(
             IF IsNone(context[1][2]) \/ DictHas(attributes, context[1][1])
             THEN attributes
             ELSE DictSet(attributes, context[1][1], context[1][2]),
             Tail(context))

RECURSIVE ApplyContext(_, _)
(* lines 54-56: attributes[key] = value for every non-None context value *)
ApplyContext(attributes, context) ==
    IF context = <<>> THEN attributes
    ELSE ApplyContext(IF IsNone(context[1][2]) THEN attributes
                      ELSE DictSet(attributes, context[1][1], context[1][2]),
                      Tail(context))

(* the override block lines 59-62 apply, or << >> when none is applied *)
AppliedOverride(attributes, config) ==
    LET override_key == _get_override_key(attributes, config)
        overrides == DictGetOrEmpty(config[2], K("overrides"))[2]
    IN IF Truthy(override_key) /\ InDict(override_key, overrides)
       THEN DictGet(overrides, override_key[2])[2]
       ELSE <<>>

RECURSIVE UpdateAll(_, _)
UpdateAll(attributes, blocks) ==
    IF blocks = <<>> THEN attributes
    ELSE UpdateAll(DictUpdate(attributes, blocks[1][2][2]), Tail(blocks))

AssembledAllBlocks(config, context) ==
    LET attributes == ApplyContext(DictGetOrEmpty(config[2], K("default"))[2], context)
    IN IF AppliedOverride(attributes, config) = <<>> THEN attributes
       ELSE UpdateAll(attributes, DictGetOrEmpty(config[2], K("overrides"))[2])

(* lines 51-62: the attributes assembled from default, context and override *)
AssembledAttributes(config, context) ==
    LET attributes == ApplyContext(DictGetOrEmpty(config[2], K("default"))[2], context)
    IN DictUpdate(attributes, AppliedOverride(attributes, config))

RECURSIVE AssetFlattenFrom(_, _)
AssetFlattenFrom(out, entries) ==
    IF entries = <<>> THEN out
    ELSE LET key == entries[1][1]
             value == entries[1][2]
             children == [i \in DOMAIN value[2] |->
                              <<key \o <<"_">> \o value[2][i][1], value[2][i][2]>>]
         IN AssetFlattenFrom(IF IsDict(value) THEN DictUpdate(out, children)
                             ELSE DictSet(out, key, value),
                             Tail(entries))

AssetFlattened(config, context, days_ago) ==
    AssetFlattenFrom(<<>>, _process_dynamic_values(AssembledAttributes(config, context),
                                                  days_ago))

(* load_asset_attributes on the loaded document config *)
load_asset_attributes(config, context, days_ago) ==
    _process_dynamic_values(AssembledAttributes(config, context), days_ago)

AssetWritesInPlace(config, attributes) ==
    IF DictHas(config[2], K("default"))
    THEN DictV(DictSet(config[2], K("default"), DictV(attributes)))
    ELSE config

(* the cached document after load_asset_attributes assembled attributes:   *)
(* line 51 copies default before lines 56 and 62 write, and line 226 copies *)
(* again, so no write reaches the cached object *)
AssetCachedAfter(config, attributes) == config

----------------------------------------------------------------------------
(* Device resolution: template expansion, the value processor, flattening *)

(* what an exception raised while processing leaves in place of a value *)
Raised == <<"raised", <<>> >>

Digit(n) == <<"0", "1", "2", "3", "4", "5", "6", "7", "8", "9">>[n + 1]

RECURSIVE Decimal(_)
(* str(n) for n >= 0, one chunk per digit *)
Decimal(n) == IF n < 10 THEN <<Digit(n)>> ELSE Decimal(n \div 10) \o <<Digit(n % 10)>>

(* sub in s, on chunk sequences *)
Contains(s, sub) ==
    \E i \in 1..(Len(s) - Len(sub) + 1) : SubSeq(s, i, i + Len(sub) - 1) = sub

RECURSIVE ReplaceFirst(_, _, _)
ReplaceFirst(s, old, new) ==
    IF Len(s) < Len(old) THEN s
    ELSE IF SubSeq(s, 1, Len(old)) = old
         THEN new \o SubSeq(s, Len(old) + 1, Len(s))
         ELSE <<Head(s)>> \o ReplaceFirst(Tail(s), old, new)

RECURSIVE ReplaceAll(_, _, _)
(* s.replace(old, new): every non-overlapping occurrence, left to right *)
ReplaceAll(s, old, new) ==
    IF Len(s) < Len(old) THEN s
    ELSE IF SubSeq(s, 1, Len(old)) = old
         THEN new \o ReplaceAll(SubSeq(s, Len(old) + 1, Len(s)), old, new)
         ELSE <<Head(s)>> \o ReplaceAll(Tail(s), old, new)

(* str() of the replacements table's entries (lines 199-204): the device   *)
(* index in decimal; the bound method and the two lambdas are never called, *)
(* so str() gives their repr *)
ReplacementText(key, device_index) ==
    CASE key = "device_index" -> Decimal(device_index)
      [] key = "random" -> <<"<bound method AttributeLoader._random_replacement>">>
      [] key = "timestamp" -> <<"<function <lambda>>">>
      [] key = "date" -> <<"<function <lambda>>">>

TemplateKeys == <<"device_index", "random", "timestamp", "date">>

(* _random_replacement(match_str), lines 213-222: the tokens it can return; *)
(* the draws followed are the two ends of each range and, for the string    *)
(* token, two of the 36^8 words.  No line of the module calls it. *)
_random_replacement(match_str) ==
    IF Contains(match_str, <<"string">>)
    THEN {<<"AAAAAAAA">>, <<"Z9Y8X7W6">>}
    ELSE IF Contains(match_str, <<"number">>)
    THEN {Decimal(1000), Decimal(9999)}
    ELSE {Decimal(100000), Decimal(999999)}

RECURSIVE ExpandFrom(_, _, _)
(* the loop of _process_template from the i-th replacement on *)
ExpandFrom(result, i, device_index) ==
    IF i > Len(TemplateKeys) THEN result
    ELSE LET key == TemplateKeys[i]
         IN ExpandFrom(IF Contains(result, <<key>>)
                       THEN ReplaceAll(result, <<"{", key, "}">>,
                                       ReplacementText(key, device_index))
                       ELSE result,
                       i + 1, device_index)

(* _process_template(template, device_index) on the chunks of a string *)
_process_template(template, device_index) == ExpandFrom(template, 1, device_index)

(* line 175: the test that sends a string to _process_template *)
IsTemplate(value) ==
    IsStr(value) /\ Contains(value[2], <<"{", "{">>) /\ Contains(value[2], <<"}", "}">>)

(* floats are fixed-point: <<"float", n>> is the real n / FloatUnit, so     *)
(* halves are there when the unit is 2 *)
FloatUnit == 2

(* the real an int or float stands for in float arithmetic, in units *)
AsReal(v) == IF IsFloat(v) THEN v[2] ELSE v[2] * FloatUnit

(* random.uniform(a, b): the draws followed are the reals a + (b - a) * f   *)
(* that are whole in the fixed-point unit of the float payload *)
Between(a, b) == IF a <= b THEN a..b ELSE b..a

RandintHalfOpen(a, b) == a..(b - 1)

(* random.randint(a, b) for a <= b: any integer from a to b, both included *)
randint(a, b) == a..b

IsNumber(v) == v[1] \in {"int", "float"}

RECURSIVE ProcessValue(_, _)
RECURSIVE ProcessItems(_, _)

(* the dict comprehension of line 193: every dict that processing the      *)
(* entries of d in order can give; Raised if a child raises *)
ProcessItems(d, device_index) ==
    IF d = <<>> THEN {DictV(<<>>)}
    ELSE LET heads == ProcessValue(d[1][2], device_index)
             tails == ProcessItems(Tail(d), device_index)
         IN IF Raised \in heads \/ Raised \in tails
            THEN {Raised}
            ELSE {DictV(<<<<d[1][1], h>>>> \o t[2]) : h \in heads, t \in tails}

(* _process_value(key, value, device_index): the set of values it can      *)
(* return over the random draws, Raised for an exception *)
ProcessValue(value, device_index) ==
    IF IsTemplate(value)
    THEN {StrV(_process_template(value[2], device_index))}
    ELSE IF IsList(value)
    THEN IF value[2] = <<>> THEN {Raised}
         ELSE {value[2][i] : i \in DOMAIN value[2]}
    ELSE IF IsDict(value)
    THEN IF DictHas(value[2], K("min")) /\ DictHas(value[2], K("max"))
         THEN LET lo == DictGet(value[2], K("min"))
                  hi == DictGet(value[2], K("max"))
              IN IF ~IsNumber(lo) \/ ~IsNumber(hi) THEN {Raised}
                 ELSE IF IsFloat(lo) \/ IsFloat(hi)
                 THEN {FloatV(n) : n \in Between(AsReal(lo), AsReal(hi))}
                 ELSE IF lo[2] > hi[2] THEN {Raised}
                 ELSE {IntV(n) : n \in randint(lo[2], hi[2])}
         ELSE IF DictHas(value[2], K("prefix")) /\ DictHas(value[2], K("format"))
         THEN IF IsStr(DictGet(value[2], K("format")))
              THEN {StrV(_process_template(DictGet(value[2], K("format"))[2],
                                           device_index))}
              ELSE {Raised}
         ELSE ProcessItems(value[2], device_index)
    ELSE {value}

RECURSIVE FlattenInto(_, _, _)
(* lines 165-166: attributes[f"{key}_{sub_key}"] = sub_value per child *)
FlattenInto(attributes, key, children) ==
    IF children = <<>> THEN attributes
    ELSE FlattenInto(DictSet(attributes, key \o <<"_">> \o children[1][1], children[1][2]),
                     key, Tail(children))

EmitWithSection(attributes, section_name, key, processed_value) ==
    IF IsDict(processed_value)
    THEN FlattenInto(attributes, section_name \o <<"_">> \o key, processed_value[2])
    ELSE DictSet(attributes, section_name \o <<"_">> \o key, processed_value)

(* lines 163-168: what one processed entry of a section adds to attributes; *)
(* the section's name takes no part *)
Emit(attributes, section_name, key, processed_value) ==
    IF IsDict(processed_value)
    THEN FlattenInto(attributes, key, processed_value[2])
    ELSE DictSet(attributes, key, processed_value)

RECURSIVE SectionFrom(_, _, _, _)
(* the loop of _process_section over the entries still to visit *)
SectionFrom(attributes, section_name, section_config, device_index) ==
    IF section_config = <<>> THEN {DictV(attributes)}
    ELSE LET outs == ProcessValue(section_config[1][2], device_index)
         IN IF Raised \in outs THEN {Raised}
            ELSE UNION {SectionFrom(Emit(attributes, section_name,
                                         section_config[1][1], pv),
                                    section_name, Tail(section_config), device_index)
                        : pv \in outs}

(* _process_section(section_name, section_config, device_index): the flat  *)
(* dicts it can return *)
_process_section(section_name, section_config, device_index) ==
    SectionFrom(<<>>, section_name, section_config, device_index)

RECURSIVE DeviceFromKeepsFirst(_, _, _)
DeviceFromKeepsFirst(attributes, config, device_index) ==
    IF config = <<>> THEN {DictV(attributes)}
    ELSE IF IsDict(config[1][2])
    THEN LET secs == _process_section(config[1][1], config[1][2][2], device_index)
         IN IF Raised \in secs THEN {Raised}
            ELSE UNION {DeviceFromKeepsFirst(DictUpdate(sec[2], attributes),
                                             Tail(config), device_index)
                        : sec \in secs}
    ELSE DeviceFromKeepsFirst(attributes, Tail(config), device_index)

RECURSIVE DeviceFrom(_, _, _)
(* the loop of load_device_attributes over the top-level entries to visit *)
DeviceFrom(attributes, config, device_index) ==
    IF config = <<>> THEN {DictV(attributes)}
    ELSE IF IsDict(config[1][2])
    THEN LET secs == _process_section(config[1][1], config[1][2][2], device_index)
         IN IF Raised \in secs THEN {Raised}
            ELSE UNION {DeviceFrom(DictUpdate(attributes, sec[2]), Tail(config), device_index)
                        : sec \in secs}
    ELSE DeviceFrom(attributes, Tail(config), device_index)

DeviceWithContext(config, device_index, context) ==
    {IF d = Raised THEN Raised ELSE DictV(ApplyContext(d[2], context)) :
        d \in DeviceFrom(<<>>, config[2], device_index)}

(* load_device_attributes on the loaded document config: the mappings it   *)
(* can return; the context takes no part *)
load_device_attributes(config, device_index, context) ==
    DeviceFrom(<<>>, config[2], device_index)

----------------------------------------------------------------------------
(* Documents on storage *)

Pair(k, v) == <<K(k), v>>

(* assets/room.yaml and its dev overlay *)
AssetBaseDoc ==
    DictV(<< Pair("default", DictV(<< Pair("classification", S("ISO8")),
                                     Pair("air", IntV(20)),
                                     <<Key2("installation", "date"), S("auto")>>,
                                     <<Key2("total", "buildings"), None>>,
                                     Pair("limits", DictV(<<Pair("lo", IntV(1))>>)) >>)),
             Pair("overrides", DictV(<< Pair("ISO5",
                                            DictV(<< Pair("air", IntV(240)),
                                                     Pair("pressure", IntV(15)) >>)) >>)) >>)

AssetEnvDoc ==
    DictV(<< Pair("default", DictV(<< Pair("air", IntV(30)),
                                     Pair("limits", DictV(<<Pair("hi", IntV(9))>>)),
                                     Pair("tags", ListV(<<S("dev")>>)) >>)) >>)

(* devices/ffu.yaml and its dev overlay *)
DeviceBaseDoc ==
    DictV(<< Pair("version", IntV(2)),
             <<Key2("device", "info"),
               DictV(<< <<Key2("serial", "number"),
                          StrV(<<"SN-", "{", "{", "device_index", "}", "}">>)>>,
                        Pair("model", ListV(<<S("R3G"), S("K3G")>>)) >>)>> >>)

DeviceEnvDoc ==
    DictV(<< <<Key2("device", "info"), DictV(<< Pair("model", ListV(<<S("DEV")>>)) >>)>>,
             Pair("debug", DictV(<< Pair("mode", S("on")) >>)) >>)

(* telemetry devices/ffu.yaml and its dev overlay *)
TelemetryBaseDoc ==
    DictV(<< Pair("points", DictV(<< Pair("temp", DictV(<< Pair("unit", S("C")),
                                                           Pair("max", IntV(50)) >>)) >>)),
             Pair("special", ListV(<<S("DW1"), S("DW2")>>)) >>)

TelemetryEnvDoc ==
    DictV(<< Pair("points", DictV(<< Pair("temp", DictV(<< Pair("max", IntV(60)) >>)) >>)),
             Pair("special", ListV(<<S("DW9")>>)) >>)

(* the document the repository keeps at a path, and a later edit of it *)
DocAt(path) ==
    CASE path = PathOf(AssetFile, "") -> AssetBaseDoc
      [] path = PathOf(AssetFile, "dev") -> AssetEnvDoc
      [] path = PathOf(DeviceFile, "") -> DeviceBaseDoc
      [] path = PathOf(DeviceFile, "dev") -> DeviceEnvDoc
      [] path = PathOf(TelemetryFile, "") -> TelemetryBaseDoc
      [] path = PathOf(TelemetryFile, "dev") -> TelemetryEnvDoc

EditedDocAt(path) == DictV(Append(DocAt(path)[2], Pair("edited", IntV(1))))

(* the layouts of storage at the start: the base files there or not, the   *)
(* dev overlays there or not *)
Layouts == {[p \in Paths |-> IF p[2] \in envs THEN DocAt(p) ELSE NoFile] :
            envs \in SUBSET {"", "dev"}}

----------------------------------------------------------------------------
(* State: files is storage, cache[l] the cache of loader l (by path),      *)
(* reads[l][p] counts the loads of l that opened and parsed files for the  *)
(* cache key p, fsops counts the changes made to storage, last records the *)
(* last call and what it returned *)

NoCall ==
    [op |-> "none", loader |-> "default", req |-> AssetFile, err |-> FALSE,
     hit |-> FALSE, path |-> PathOf(AssetFile, ""), config |-> NoResult,
     result |-> NoResult, context |-> <<>>, device_index |-> 0, days_ago |-> 0]

(* self.stats of a new cleaner, self.created_entities of a new provisioner *)
NoCount == [found |-> 0, deleted |-> 0, missing |-> 0, failed |-> 0]
NoStats == [devices |-> NoCount, assets |-> NoCount]
NoEntities ==
    [sites |-> <<>>, buildings |-> <<>>, floors |-> <<>>, rooms |-> <<>>,
     gateways |-> <<>>, devices |-> <<>>]

InitWith(fs) ==
    /\ files \in fs
    /\ cache = [l \in Loaders |-> [p \in Paths |-> NotCached]]
    /\ reads = [l \in Loaders |-> [p \in Paths |-> 0]]
    /\ fsops = 0
    /\ last = NoCall
    /\ sent = <<>>
    /\ dry_run = FALSE
    /\ stats = NoStats
    /\ created_entities = NoEntities

Init == InitWith(Layouts)

StoredShared(l, r, document) ==
    /\ cache' = [m \in Loaders |->
                     IF r.err THEN cache[m] ELSE [cache[m] EXCEPT ![r.path] = document]]
    /\ reads' = IF r.err \/ r.hit THEN reads
                ELSE [reads EXCEPT ![l][r.path] = @ + 1]
    /\ UNCHANGED <<files, fsops, platform>>

(* what every load does to cache and reads, r being _load_yaml's outcome *)
Stored(l, r, document) ==
    /\ cache' = [cache EXCEPT ![l] = IF r.err THEN r.cache
                                     ELSE [r.cache EXCEPT ![r.path] = document]]
    /\ reads' = IF r.err \/ r.hit THEN reads
                ELSE [reads EXCEPT ![l][r.path] = @ + 1]
    /\ UNCHANGED <<files, fsops, platform>>

Called(op, l, req, r, result, context, device_index, days_ago) ==
    last' = [op |-> op, loader |-> l, req |-> req, err |-> r.err,
             hit |-> r.hit, path |-> r.path, config |-> r.config,
             result |-> IF r.err THEN NoResult ELSE result,
             context |-> context, device_index |-> device_index,
             days_ago |-> days_ago]

(* loader l's load_asset_attributes('room', context) *)
LoadAsset(l, context, days_ago) ==
    LET r == _load_yaml(files, cache[l], l, AssetFile)
    IN /\ Stored(l, r, IF r.err THEN NoResult
                       ELSE AssetCachedAfter(r.config,
                                             AssembledAttributes(r.config, context)))
       /\ Called("asset", l, AssetFile, r,
                 IF r.err THEN NoResult
                 ELSE DictV(load_asset_attributes(r.config, context, days_ago)),
                 context, 0, days_ago)

(* loader l's load_device_attributes('ffu', device_index, context) *)
LoadDevice(l, device_index, context) ==
    LET r == _load_yaml(files, cache[l], l, DeviceFile)
    IN /\ Stored(l, r, r.config)
       /\ \E result \in IF r.err THEN {NoResult}
                        ELSE load_device_attributes(r.config, device_index, context) :
              Called("device", l, DeviceFile, r, result, context, device_index, 0)

(* loader l's load_telemetry_config('ffu') *)
LoadTelemetry(l) ==
    LET r == _load_telemetry_yaml(files, cache[l], l, TelemetryFile)
    IN /\ Stored(l, r, r.config)
       /\ Called("telemetry", l, TelemetryFile, r, r.config, <<>>, 0, 0)

(* inputs of the calls followed in the loader's specification *)
SmallContexts ==
    { <<>>,
      << Pair("classification", S("ISO5")), Pair("air", IntV(7)) >>,
      << Pair("classification", None), Pair("area", IntV(100)) >> }

DeviceIndexes == {7, 12}

Next ==
    \/ \E l \in Loaders, context \in SmallContexts, d \in DaysAgoDraws :
           LoadAsset(l, context, d)
    \/ \E l \in Loaders, i \in DeviceIndexes : LoadDevice(l, i, <<>>)
    \/ \E l \in Loaders : LoadTelemetry(l)

(* the loaders alone, storage as it was found *)
Spec == Init /\ [][Next]_vars

----------------------------------------------------------------------------
(* The module-level functions (lines 262-285) next to the two loaders: a   *)
(* call with an environment constructs a loader of its own, used for that   *)
(* call only; a call without one goes to the module-level loader *)

(* self.cache = {} of a loader just constructed *)
FreshCache == [p \in Paths |-> NotCached]

(* what a loader constructed inside the call leaves behind: its cache goes  *)
(* with it, no other loader's state is written *)
Discarded == UNCHANGED <<files, cache, reads, fsops, platform>>

(* load_asset_attributes('room', context, environment) of the module *)
ModuleLoadAsset(env, context, days_ago) ==
    IF env = "" THEN LoadAsset("default", context, days_ago)
    ELSE LET r == _load_yaml(files, FreshCache, env, AssetFile)
         IN /\ Discarded
            /\ Called("asset", "fresh", AssetFile, r,
                      IF r.err THEN NoResult
                      ELSE DictV(load_asset_attributes(r.config, context, days_ago)),
                      context, 0, days_ago)

(* load_device_attributes('ffu', device_index, context, environment) of the *)
(* module *)
ModuleLoadDevice(env, device_index, context) ==
    IF env = "" THEN LoadDevice("default", device_index, context)
    ELSE LET r == _load_yaml(files, FreshCache, env, DeviceFile)
         IN /\ Discarded
            /\ \E result \in IF r.err THEN {NoResult}
                             ELSE load_device_attributes(r.config, device_index, context) :
                   Called("device", "fresh", DeviceFile, r, result, context, device_index, 0)

(* load_telemetry_config('ffu', environment) of the module *)
ModuleLoadTelemetry(env) ==
    IF env = "" THEN LoadTelemetry("default")
    ELSE LET r == _load_telemetry_yaml(files, FreshCache, env, TelemetryFile)
         IN /\ Discarded
            /\ Called("telemetry", "fresh", TelemetryFile, r, r.config, <<>>, 0, 0)

(* the environment argument: None, or "dev" *)
Environments == {"", "dev"}

NextModule ==
    \/ \E l \in Loaders, context \in SmallContexts : LoadAsset(l, context, AutoDaysMin)
    \/ \E l \in Loaders, i \in DeviceIndexes : LoadDevice(l, i, <<>>)
    \/ \E l \in Loaders : LoadTelemetry(l)
    \/ \E env \in Environments, context \in SmallContexts :
           ModuleLoadAsset(env, context, AutoDaysMin)
    \/ \E env \in Environments, i \in DeviceIndexes : ModuleLoadDevice(env, i, <<>>)
    \/ \E env \in Environments : ModuleLoadTelemetry(env)

SpecModule == Init /\ [][NextModule]_vars

----------------------------------------------------------------------------
(* Storage changing under the loaders: files are written and removed       *)
(* between the calls *)

MaxFsOps == 1

(* a file is created or overwritten between two calls *)
WriteFile(path, doc) ==
    /\ fsops < MaxFsOps
    /\ files[path] # doc
    /\ files' = [files EXCEPT ![path] = doc]
    /\ fsops' = fsops + 1
    /\ last' = NoCall
    /\ UNCHANGED <<cache, reads, platform>>

(* a file is removed between two calls *)
RemoveFile(path) ==
    /\ fsops < MaxFsOps
    /\ files[path] # NoFile
    /\ files' = [files EXCEPT ![path] = NoFile]
    /\ fsops' = fsops + 1
    /\ last' = NoCall
    /\ UNCHANGED <<cache, reads, platform>>

StorageContexts == { << Pair("classification", S("ISO5")), Pair("air", IntV(7)) >> }

NextStorage ==
    \/ \E l \in Loaders, context \in StorageContexts :
           LoadAsset(l, context, AutoDaysMin)
    \/ \E l \in Loaders : LoadDevice(l, 7, <<>>)
    \/ \E l \in Loaders : LoadTelemetry(l)
    \/ \E path \in Paths : \E doc \in {DocAt(path), EditedDocAt(path)} :
           WriteFile(path, doc)
    \/ \E path \in Paths : RemoveFile(path)

(* the layouts at the start: the files of one of the three documents, base *)
(* or overlay or both or none *)
StorageLayouts ==
    {[p \in Paths |-> IF <<p[1], p[3]>> = req /\ p[2] \in envs THEN DocAt(p) ELSE NoFile] :
     req \in Requests, envs \in SUBSET {"", "dev"}}

InitStorage == InitWith(StorageLayouts)

SpecStorage == InitStorage /\ [][NextStorage]_vars

----------------------------------------------------------------------------
(* _merge_configs on generated documents: the dev loader's telemetry load  *)
(* of a base document D and an overlay E *)

MaxLeaf == 1
MergeLeaves == {IntV(i) : i \in 1..MaxLeaf} \cup {ListV(<<IntV(1)>>)}

(* the dicts over the keys a and b with values in vals *)
DictsOver(vals) ==
    {<<>>} \cup {<<Pair(k, v)>> : k \in {"a", "b"}, v \in vals}
           \cup {<<Pair("a", v), Pair("b", w)>> : v \in vals, w \in vals}

MergeDocs ==
    {DictV(d) : d \in DictsOver(MergeLeaves \cup {DictV(c) : c \in DictsOver(MergeLeaves)})}

MergeLayouts ==
    {[p \in Paths |-> IF p = PathOf(TelemetryFile, "") THEN D
                      ELSE IF p = PathOf(TelemetryFile, "dev") THEN E
                      ELSE NoFile] : D \in MergeDocs, E \in MergeDocs}

InitMerge == InitWith(MergeLayouts)

NextMerge == last.op = "none" /\ LoadTelemetry("dev")

SpecMerge == InitMerge /\ [][NextMerge]_vars

----------------------------------------------------------------------------
(* Asset resolution on generated documents and contexts: one call of the   *)
(* default loader's load_asset_attributes per document and context *)

Opt(entries) == {<<>>} \cup {<<e>> : e \in entries}

(* default sections: classification, building_type and site_type there or  *)
(* not, then air alone or air with the attributes post-processing looks at  *)
(* and a range, a list, a template string and a nested mapping *)
AssetDefaults ==
    {c \o b \o t \o x :
        c \in Opt({Pair("classification", v) :
                       v \in {S("ISO5"), S("ISO8"), S("lab"), StrV(<<>>)}}),
        b \in Opt({<<Key2("building", "type"), v>> : v \in {S("ISO5"), S("lab")}}),
        t \in Opt({<<Key2("site", "type"), S("lab")>>}),
        x \in {<< Pair("air", IntV(20)) >>,
               << Pair("air", IntV(20)),
                  <<Key2("installation", "date"), S("auto")>>,
                  <<Key2("total", "buildings"), None>>,
                  Pair("limits", DictV(<<Pair("min", IntV(1)), Pair("max", IntV(2))>>)),
                  Pair("tags", ListV(<<S("A"), S("B")>>)),
                  Pair("name", StrV(<<"R-", "{", "{", "device_index", "}", "}">>)),
                  Pair("geo", DictV(<<Pair("lat", DictV(<<Pair("deg", IntV(21))>>))>>)) >>}}

OverrideBlock(name) ==
    CASE name = <<"ISO5">> -> DictV(<< Pair("air", IntV(240)), Pair("pressure", IntV(15)) >>)
      [] name = <<"lab">> -> DictV(<< Pair("air", IntV(99)),
                                      <<Key2("installation", "date"), S("auto")>>,
                                      <<Key2("total", "buildings"), None>>,
                                      Pair("limits", DictV(<<Pair("min", IntV(5)),
                                                             Pair("max", IntV(6))>>)),
                                      Pair("zones", ListV(<<DictV(<<Pair("id", IntV(1))>>)>>)) >>)
      [] name = <<>> -> DictV(<< Pair("air", IntV(1)) >>)

(* overrides sections: a block for ISO5, for lab, for the empty string *)
AssetOverrides ==
    {a \o b \o c :
        a \in Opt({<<<<"ISO5">>, OverrideBlock(<<"ISO5">>)>>}),
        b \in Opt({<<<<"lab">>, OverrideBlock(<<"lab">>)>>}),
        c \in Opt({<<<<>>, OverrideBlock(<<>>)>>})}

AssetDocs ==
    {DictV(d \o o) :
        d \in Opt({Pair("default", DictV(x)) : x \in AssetDefaults}),
        o \in Opt({Pair("overrides", DictV(x)) : x \in AssetOverrides})}

AssetContexts ==
    {c \o b \o t \o x :
        c \in Opt({Pair("classification", v) :
                       v \in {None, S("ISO5"), S("lab"), StrV(<<>>)}}),
        b \in Opt({<<Key2("building", "type"), S("lab")>>}),
        t \in Opt({<<Key2("site", "type"), S("lab")>>}),
        x \in Opt({Pair("air", IntV(7)),
                   <<Key2("installation", "date"), S("auto")>>,
                   <<Key2("installation", "date"), S("2020-01-01")>>,
                   <<Key2("total", "buildings"), IntV(3)>>,
                   <<Key2("total", "buildings"), None>>})}

AssetLayouts ==
    {[p \in Paths |-> IF p = PathOf(AssetFile, "") THEN D ELSE NoFile] : D \in AssetDocs}

InitAsset == InitWith(AssetLayouts)

NextAsset ==
    /\ last.op = "none"
    /\ \E context \in AssetContexts, d \in DaysAgoDraws : LoadAsset("default", context, d)

SpecAsset == InitAsset /\ [][NextAsset]_vars

----------------------------------------------------------------------------
(* Device resolution on generated documents: one call of the default       *)
(* loader's load_device_attributes per document and device index *)

Placeholder(name) == <<"{", name, "}">>
Doubled(name) == <<"{", "{", name, "}", "}">>

(* value specifiers that are no plain nested dict *)
DeviceLeaves ==
    { S("lit"), IntV(5),
      StrV(<<"SN-">> \o Placeholder("device_index")),
      StrV(<<"SN-">> \o Doubled("device_index")),
      StrV(Placeholder("device_index") \o <<"/">> \o Placeholder("device_index")),
      StrV(<<"ID-">> \o Doubled("random") \o <<"-">> \o Placeholder("device_index")),
      ListV(<<S("A"), S("B")>>),
      ListV(<<DictV(<<Pair("y", IntV(1))>>)>>),
      ListV(<<>>),
      DictV(<<Pair("min", IntV(1)), Pair("max", IntV(2))>>),
      DictV(<<Pair("min", IntV(2)), Pair("max", IntV(1))>>),
      DictV(<<Pair("min", FloatV(10 * FloatUnit + 1)), Pair("max", IntV(11))>>),
      DictV(<<Pair("prefix", S("SN")),
              Pair("format", StrV(<<"SN-">> \o Placeholder("device_index")))>>) }

(* nested dicts are at most MaxNest deep around a leaf *)
MaxNest == 2

RECURSIVE Nested(_)
Nested(n) ==
    IF n = 0 THEN DeviceLeaves
    ELSE Nested(n - 1) \cup {DictV(<<Pair("y", v)>>) : v \in Nested(n - 1)}
                       \cup {DictV(<<Pair("y", v), Pair("z", S("lit"))>>) :
                                 v \in Nested(n - 1) \ DeviceLeaves}

SerialNumber == Key2("serial", "number")
DeviceInfo == Key2("device", "info")
SectionKeys == {SerialNumber, K("x")}

(* a section: one entry, or two, the second a literal, a choice or a key   *)
(* that a flattened first entry also writes *)
DeviceSections ==
    {<<<<k, v>>>> \o more :
        k \in SectionKeys, v \in Nested(MaxNest),
        more \in Opt({<<Key2("x", "y"), S("own")>>, Pair("w", ListV(<<S("A"), S("B")>>))})}

(* a document: maybe a top-level scalar or sequence, the section           *)
(* device_info, maybe a later section that writes serial_number again *)
DeviceDocs ==
    {DictV(top \o <<<<DeviceInfo, DictV(sec)>>>> \o later) :
        top \in Opt({Pair("version", IntV(2)), Pair("tags", ListV(<<S("A")>>))}),
        sec \in DeviceSections,
        later \in Opt({Pair("extra", DictV(<<<<SerialNumber, S("late")>>>>))})}

DeviceLayouts ==
    {[p \in Paths |-> IF p = PathOf(DeviceFile, "") THEN D ELSE NoFile] : D \in DeviceDocs}

InitDevice == InitWith(DeviceLayouts)

(* the contexts passed: none, and one with a key no document has next to a *)
(* key the documents have *)
DeviceContexts ==
    { <<>>, << Pair("site", S("ctx")), <<SerialNumber, S("ctx")>> >> }

NextDevice ==
    /\ last.op = "none"
    /\ \E i \in DeviceIndexes, context \in DeviceContexts :
           LoadDevice("default", i, context)

SpecDevice == InitDevice /\ [][NextDevice]_vars

----------------------------------------------------------------------------
(* _process_template on generated strings: one call of the default         *)
(* loader's load_device_attributes on a document whose entry x is a serial  *)
(* number format, the branch of _process_value (line 190) that hands the    *)
(* string to _process_template whatever its braces *)

(* what a template is put together from: the four placeholders, a          *)
(* placeholder no table entry names, the words _random_replacement looks    *)
(* for, a key name outside braces, text and lone braces *)
TemplatePieces ==
    {Placeholder(TemplateKeys[i]) : i \in DOMAIN TemplateKeys}
        \cup {Placeholder("foo"), <<"string">>, <<"number">>, <<"date">>,
              <<"SN-">>, <<"{">>, <<"}">>}

(* templates are at most MaxPieces pieces long *)
MaxPieces == 3

RECURSIVE Templates(_)
Templates(n) ==
    IF n = 0 THEN {<<>>}
    ELSE Templates(n - 1) \cup {t \o piece : t \in Templates(n - 1), piece \in TemplatePieces}

TemplateDocs ==
    {DictV(<< <<DeviceInfo,
                DictV(<< Pair("x", DictV(<< Pair("prefix", S("SN")),
                                            Pair("format", StrV(t)) >>)) >>)>> >>) :
        t \in Templates(MaxPieces)}

TemplateLayouts ==
    {[p \in Paths |-> IF p = PathOf(DeviceFile, "") THEN D ELSE NoFile] : D \in TemplateDocs}

InitTemplate == InitWith(TemplateLayouts)

NextTemplate ==
    /\ last.op = "none"
    /\ \E i \in DeviceIndexes : LoadDevice("default", i, <<>>)

SpecTemplate == InitTemplate /\ [][NextTemplate]_vars

----------------------------------------------------------------------------
(* Range specifiers: one call of the default loader's                      *)
(* load_device_attributes on a document whose entry x is {min: a, max: b},  *)
(* with or without a further key *)

(* bounds are integers from -1 to MaxBound and the floats in between *)
MaxBound == 2
RangeBounds ==
    {IntV(n) : n \in -1..MaxBound}
        \cup {FloatV(n) : n \in (0 - FloatUnit)..(MaxBound * FloatUnit)}

RangeDocs ==
    {DictV(<< <<DeviceInfo,
                DictV(<< Pair("x", DictV(<<Pair("min", a), Pair("max", b)>> \o more)) >>)>> >>) :
        a \in RangeBounds, b \in RangeBounds, more \in Opt({Pair("unit", S("C"))})}

RangeLayouts ==
    {[p \in Paths |-> IF p = PathOf(DeviceFile, "") THEN D ELSE NoFile] : D \in RangeDocs}

InitRange == InitWith(RangeLayouts)

NextRange ==
    /\ last.op = "none"
    /\ \E i \in DeviceIndexes : LoadDevice("default", i, <<>>)

SpecRange == InitRange /\ [][NextRange]_vars

----------------------------------------------------------------------------
(* The configuration validator (src/config-v1/config-validator.py) *)

(* `word in str(full_path)`: the directory names on the path of a stored   *)
(* file, the root and the directory of the relative path *)
PathWords(path) ==
    {path[1]} \cup (IF path[3] = AssetFile[2] THEN {"assets"} ELSE {"devices"})

(* errors and warnings are the lists the checks append to *)
AssetStructureUnchecked(config, errors, warnings) ==
    [errors |-> errors, warnings |-> warnings]

_validate_asset_structure(config, errors, warnings) ==
    [errors |-> IF ~DictHas(config[2], K("default"))
                THEN Append(errors, "Asset config must have 'default' section")
                ELSE errors,
     warnings |-> warnings]

_validate_device_structure(config, errors, warnings) ==
    [errors |-> errors,
     warnings |-> IF ~DictHas(config[2], DeviceInfo)
                  THEN Append(warnings, "Missing recommended section: device_info")
                  ELSE warnings]

_validate_telemetry_structure(config, errors, warnings) ==
    [errors |-> IF ~DictHas(config[2], Key2("data", "points"))
                THEN Append(errors, "Telemetry config must have 'data_points' section")
                ELSE IF ~IsDict(DictGet(config[2], Key2("data", "points")))
                THEN Append(errors, "'data_points' must be a dictionary")
                ELSE errors,
     warnings |-> warnings]

(* validate_file(file_path) on storage fs: (valid, errors, warnings) *)
validate_file(fs, file_path) ==
    IF ~exists(fs, file_path)
    THEN [valid |-> FALSE, errors |-> <<>>, warnings |-> <<"File not found">>]
    ELSE LET config == fs[file_path]
             checked ==
                 IF "assets" \in PathWords(file_path)
                 THEN _validate_asset_structure(config, <<>>, <<>>)
                 ELSE IF "devices" \in PathWords(file_path)
                 THEN _validate_device_structure(config, <<>>, <<>>)
                 ELSE IF "telemetry" \in PathWords(file_path)
                 THEN _validate_telemetry_structure(config, <<>>, <<>>)
                 ELSE [errors |-> <<>>, warnings |-> <<>>]
         IN IF ~IsDict(config)
            THEN [valid |-> FALSE,
                  errors |-> <<"Configuration must be a dictionary">>,
                  warnings |-> <<>>]
            ELSE [valid |-> Len(checked.errors) = 0,
                  errors |-> checked.errors, warnings |-> checked.warnings]

(* key.lower() contains the word: a chunk of the key does *)
Lower(chunk) == IF chunk = "Percent" THEN "percent" ELSE chunk
InText(word, chunk) ==
    \/ word = chunk
    \/ word = "percent" /\ chunk = "percentage"
KeyContains(key, word) == \E i \in DOMAIN key : InText(word, Lower(key[i]))

(* a > b raises TypeError unless both are numbers (of two strings none is  *)
(* drawn here) *)
Comparable(a, b) == IsNumber(a) /\ IsNumber(b)

(* the checks of one entry of a section: the errors appended, and whether  *)
(* the comparison raised *)
CheckEntry(key, value) ==
    IF ~IsDict(value) THEN [raised |-> FALSE, errors |-> <<>>]
    ELSE LET ranged == DictHas(value[2], K("min")) /\ DictHas(value[2], K("max"))
             lo == DictGet(value[2], K("min"))
             hi == DictGet(value[2], K("max"))
             percent == IF (KeyContains(key, "percent") \/ KeyContains(key, "percentage"))
                           /\ IsNumber(value)
                           /\ ~(0 <= AsReal(value) /\ AsReal(value) <= 100 * FloatUnit)
                        THEN << <<"Invalid percentage for", key>> >>
                        ELSE <<>>
         IN IF ranged /\ ~Comparable(lo, hi)
            THEN [raised |-> TRUE, errors |-> <<>>]
            ELSE [raised |-> FALSE,
                  errors |-> (IF ranged /\ AsReal(lo) > AsReal(hi)
                              THEN << <<"Invalid range for", key>> >>
                              ELSE <<>>) \o percent]

RECURSIVE SectionEntries(_, _)
(* the entries of the sections that are dicts, in the order of the loops *)
SectionEntries(config, i) ==
    IF i > Len(config) THEN <<>>
    ELSE (IF IsDict(config[i][2]) THEN config[i][2][2] ELSE <<>>)
             \o SectionEntries(config, i + 1)

RECURSIVE CheckEntries(_, _, _)
CheckEntries(entries, i, errors) ==
    IF i > Len(entries) THEN [raised |-> FALSE, errors |-> errors]
    ELSE LET r == CheckEntry(entries[i][1], entries[i][2])
         IN IF r.raised THEN [raised |-> TRUE, errors |-> errors]
            ELSE CheckEntries(entries, i + 1, errors \o r.errors)

(* the device files the check globs: devices/*.yaml of the base directory *)
DeviceConfigs(fs) == {p \in {PathOf(DeviceFile, "")} : exists(fs, p)}

(* _validate_data_integrity on storage fs: (success, self.errors).  The    *)
(* glob telemetry/*.yaml looks under the attributes directory, where this  *)
(* storage keeps no file, so the second loop has nothing to go through *)
_validate_data_integrity(fs) ==
    IF DeviceConfigs(fs) = {} THEN [success |-> TRUE, errors |-> <<>>]
    ELSE LET config == fs[PathOf(DeviceFile, "")]
             r == IF IsDict(config)
                  THEN CheckEntries(SectionEntries(config[2], 1), 1, <<>>)
                  ELSE [raised |-> TRUE, errors |-> <<>>]
             errors == IF r.raised
                       THEN Append(r.errors, <<"Data validation error in", <<>> >>)
                       ELSE r.errors
         IN [success |-> Len(errors) = 0, errors |-> errors]

(* the validator keeps no state of the loaders and sends nothing *)
Validated(op, path, result) ==
    /\ last' = [NoCall EXCEPT !.op = op, !.path = path, !.config = files[path],
                              !.result = result]
    /\ UNCHANGED <<files, cache, reads, fsops, platform>>

ValidateFile(path) == Validated("validate_file", path, validate_file(files, path))

ValidateDataIntegrity ==
    Validated("_validate_data_integrity", PathOf(DeviceFile, ""),
              _validate_data_integrity(files))

(* asset documents with and without a default section *)
ValidateAssetDocs ==
    {DictV(d \o o) :
        d \in Opt({Pair("default", DictV(<< Pair("air", IntV(20)) >>)),
                   Pair("default", DictV(<< Pair("classification", S("lab")),
                                            <<Key2("installation", "date"), S("auto")>> >>))}),
        o \in Opt({Pair("overrides",
                        DictV(<< <<<<"lab">>, OverrideBlock(<<"lab">>)>> >>))})}

(* device documents: an entry named for a percentage or not, holding a     *)
(* number or a range, maybe followed by a reversed range *)
IntegrityKeys == {Key2("fan", "percent"), K("percentage"), <<"Percent">>, K("speed")}
IntegrityValues ==
    { IntV(50), IntV(150), IntV(-1), FloatV(100 * FloatUnit + 1),
      DictV(<<Pair("min", IntV(1)), Pair("max", IntV(2))>>),
      DictV(<<Pair("min", IntV(2)), Pair("max", IntV(1))>>),
      DictV(<<Pair("min", FloatV(FloatUnit + 1)), Pair("max", IntV(1))>>),
      DictV(<<Pair("min", S("low")), Pair("max", IntV(1))>>),
      DictV(<<Pair("max", IntV(1))>>) }
IntegrityDocs ==
    {DictV(top \o <<<<DeviceInfo, DictV(<<<<k, v>>>> \o more)>>>>) :
        top \in Opt({Pair("version", IntV(2))}),
        k \in IntegrityKeys, v \in IntegrityValues,
        more \in Opt({Pair("limit", DictV(<<Pair("min", IntV(5)), Pair("max", IntV(3))>>))})}

ValidateLayouts ==
    {[p \in Paths |-> IF p = PathOf(AssetFile, "") THEN A
                      ELSE IF p = PathOf(DeviceFile, "") THEN D ELSE NoFile] :
        A \in ValidateAssetDocs, D \in {NoFile} \cup IntegrityDocs}

InitValidate == InitWith(ValidateLayouts)

ValidateContexts == { <<>>, << Pair("classification", S("lab")) >> }

NextValidate ==
    \/ \E path \in Paths : ValidateFile(path)
    \/ ValidateDataIntegrity
    \/ \E context \in ValidateContexts : LoadAsset("default", context, AutoDaysMin)

SpecValidate == InitValidate /\ [][NextValidate]_vars

----------------------------------------------------------------------------
(* The enhanced cleaner (src/test-scenarios/cleanup-scenario.py).  An       *)
(* exchange is a request with the platform's answer: a status code,        *)
(* "ConnectionError" when requests raised, or for a search what it found.   *)
(* sent holds the exchanges of the last operation, in order. *)

Exchange(method, kind, id, answer) ==
    [method |-> method, kind |-> kind, id |-> id, answer |-> answer]

(* how the platform treats one entity: its answer to the existence check   *)
(* and, if asked, to the DELETE.  "500 url 404" is an error status whose    *)
(* text (status line and URL) holds the characters 404 *)
CheckAnswers == {"200", "404", "ConnectionError"}
DeleteAnswers == {"204", "404", "200", "500", "500 url 404", "ConnectionError"}
Behaviours ==
    {[check |-> c, delete |-> "none"] : c \in CheckAnswers \ {"200"}}
        \cup {[check |-> "200", delete |-> d] : d \in DeleteAnswers}

(* _check_entity_exists: the answer is 200 *)
_check_entity_exists(answer) == answer = "200"

(* self.stats[kind][counter] += 1 *)
Counted(st, kind, counter) ==
    [st EXCEPT ![kind] = [st[kind] EXCEPT ![counter] = st[kind][counter] + 1]]

(* a returned message: the fixed text and the entity name put into it *)
Message(text, name) == [text |-> text, name |-> name]

(* `"not found" in message` *)
NotFoundIn(message) == message.text = "not found" \/ message.name = "not found"

DeleteCountsTwice(type, stat, id, name, dry, st, b) ==
    [stats |-> Counted(Counted(Counted(st, stat, "found"), stat, "deleted"), stat, "failed"),
     sent |-> << Exchange("GET", type, id, b.check) >>,
     result |-> TRUE, message |-> Message("Deleted successfully", "")]

DeleteInDryRun(type, stat, id, name, dry, st, b) ==
    [stats |-> Counted(Counted(st, stat, "found"), stat, "deleted"),
     sent |-> << Exchange("GET", type, id, b.check), Exchange("DELETE", type, id, b.delete) >>,
     result |-> TRUE, message |-> Message("Deleted successfully", "")]

(* delete_device / delete_asset: type is device or asset, stat the key of   *)
(* its statistics; the statistics afterwards, the exchanges, and the        *)
(* returned (result, message) *)
Delete(type, stat, id, name, dry, st, b) ==
    LET found == Counted(st, stat, "found")
        get == Exchange("GET", type, id, b.check)
        del == Exchange("DELETE", type, id, b.delete)
        out(counter, result, message) ==
            [stats |-> Counted(found, stat, counter), sent |-> <<get, del>>,
             result |-> result, message |-> message]
    IN IF ~_check_entity_exists(b.check)
       THEN [stats |-> Counted(found, stat, "missing"), sent |-> <<get>>,
             result |-> FALSE, message |-> Message("does not exist", name)]
       ELSE IF dry
       THEN [stats |-> Counted(found, stat, "deleted"), sent |-> <<get>>,
             result |-> TRUE, message |-> Message("Would be deleted (dry run)", "")]
       ELSE CASE b.delete = "404" -> out("missing", FALSE, Message("not found", name))
              [] b.delete = "204" -> out("deleted", TRUE, Message("Deleted successfully", ""))
              [] b.delete = "200" -> out("failed", FALSE, Message("Unexpected response", ""))
              [] b.delete = "500" -> out("failed", FALSE, Message("HTTP error", id))
              [] b.delete = "500 url 404" -> out("failed", FALSE, Message("not found", name))
              [] OTHER -> out("failed", FALSE, Message("Error", id))

delete_device(id, name, dry, st, b) == Delete("device", "devices", id, name, dry, st, b)
delete_asset(id, name, dry, st, b) == Delete("asset", "assets", id, name, dry, st, b)

(* the deletions of a list of <<type, id>> in order, answers[i] being the  *)
(* platform's behaviour for the i-th; success as the loops of              *)
(* cleanup_from_file and cleanup_by_pattern keep it *)
SuccessAfter(success, r) == success /\ ~(~r.result /\ ~NotFoundIn(r.message))

RECURSIVE DeleteEach(_, _, _, _, _)
DeleteEach(targets, answers, dry, i, acc) ==
    IF i > Len(targets) THEN acc
    ELSE LET t == targets[i]
             r == IF t[1] = "device"
                  THEN delete_device(t[2], t[2], dry, acc.stats, answers[i])
                  ELSE delete_asset(t[2], t[2], dry, acc.stats, answers[i])
         IN DeleteEach(targets, answers, dry, i + 1,
                       [stats |-> r.stats, sent |-> acc.sent \o r.sent,
                        success |-> SuccessAfter(acc.success, r)])

Typed(type, ids) == [i \in DOMAIN ids |-> <<type, ids[i]>>]

(* the order cleanup_from_file goes through the file: devices, then the    *)
(* asset lists gateways, rooms, floors, buildings, sites *)
Targets(entities) ==
    Typed("device", entities.devices) \o Typed("asset", entities.gateways)
        \o Typed("asset", entities.rooms) \o Typed("asset", entities.floors)
        \o Typed("asset", entities.buildings) \o Typed("asset", entities.sites)

(* cleanup_from_file(entities_file): entities is the content of the file,  *)
(* or NoEntitiesFile when there is none *)
NoEntitiesFile == [nofile |-> TRUE]

cleanup_from_file(entities, dry, st, answers) ==
    IF entities = NoEntitiesFile THEN [stats |-> st, sent |-> <<>>, success |-> FALSE]
    ELSE DeleteEach(Targets(entities), answers, dry, 1,
                    [stats |-> st, sent |-> <<>>, success |-> TRUE])

(* what the platform holds: entities with the one name pattern of           *)
(* cleanup_all_test_data each matches *)
Held(type, id, pattern) == [type |-> type, id |-> id, pattern |-> pattern]
HeldEntities ==
    { Held("device", "DW1", "DW*"), Held("device", "GW1", "GW*"),
      Held("asset", "Room1", "Room*"), Held("asset", "not found", "Test*") }

RECURSIVE InOrder(_)
(* a set of entities as the list a search returns *)
InOrder(set) ==
    IF set = {} THEN <<>>
    ELSE LET e == CHOOSE x \in set : TRUE
         IN <<e>> \o InOrder(set \ {e})

Matches(e, pattern) == pattern = "" \/ e.pattern = pattern

(* _search_entities(type, pattern) on a platform holding `held`: the GET   *)
(* of the listing (its pages as one exchange) and the entities whose name  *)
(* matches; nothing if the request failed *)
_search_entities(held, failing, type, pattern) ==
    LET found == IF <<type, pattern>> \in failing THEN <<>>
                 ELSE InOrder({e \in held : e.type = type /\ Matches(e, pattern)})
    IN [sent |-> << Exchange("GET", type, pattern,
                             IF <<type, pattern>> \in failing THEN "ConnectionError"
                             ELSE "200") >>,
        found |-> [i \in DOMAIN found |-> <<found[i].type, found[i].id>>]]

(* cleanup_by_pattern(pattern, device_type); confirm is what the operator   *)
(* types when asked *)
cleanup_by_pattern(pattern, device_type, held, failing, confirm, dry, st, answers) ==
    LET devices == IF device_type \in {"", "device", "all"}
                   THEN _search_entities(held, failing, "device", pattern)
                   ELSE [sent |-> <<>>, found |-> <<>>]
        assets == IF device_type \in {"", "asset", "all"}
                  THEN _search_entities(held, failing, "asset", pattern)
                  ELSE [sent |-> <<>>, found |-> <<>>]
        entities_to_delete == devices.found \o assets.found
        searched == devices.sent \o assets.sent
    IN IF entities_to_delete = <<>>
       THEN [stats |-> st, sent |-> searched, success |-> TRUE]
       ELSE IF ~dry /\ confirm # "yes"
       THEN [stats |-> st, sent |-> searched, success |-> FALSE]
       ELSE DeleteEach(entities_to_delete, answers, dry, 1,
                       [stats |-> st, sent |-> searched, success |-> TRUE])

patterns ==
    <<"DW*", "GW*", "Test*", "Demo*", "ST*", "SM*", "Site*", "Building*", "Floor*", "Room*">>

RECURSIVE EachPattern(_, _, _, _, _, _)
(* the loop of cleanup_all_test_data from the i-th pattern on; answers is   *)
(* the platform's behaviour by entity id *)
EachPattern(held, failing, answers, dry, i, acc) ==
    IF i > Len(patterns) THEN acc
    ELSE LET entities == _search_entities(held, failing, "device", patterns[i])
             assets == _search_entities(held, failing, "asset", patterns[i])
             found == entities.found \o assets.found
             r == DeleteEach(found, [j \in DOMAIN found |-> answers[found[j][2]]], dry, 1,
                             [stats |-> acc.stats,
                              sent |-> acc.sent \o entities.sent \o assets.sent,
                              success |-> TRUE])
         IN EachPattern(held, failing, answers, dry, i + 1,
                        [stats |-> r.stats, sent |-> r.sent, success |-> acc.success])

cleanup_all_test_data(held, failing, answers, dry, st) ==
    EachPattern(held, failing, answers, dry, 1,
                [stats |-> st, sent |-> <<>>, success |-> TRUE])

(* an operation of the cleaner: the statistics and the exchanges it leaves, *)
(* the call and what it returned *)
Cleaned(op, input, r, result) ==
    /\ stats' = r.stats
    /\ sent' = r.sent
    /\ last' = [NoCall EXCEPT !.op = op, !.config = input, !.result = result]
    /\ UNCHANGED <<files, cache, reads, fsops, dry_run, created_entities>>

Ids == {"DW1", "Room1", "not found"}

(* single calls of delete_device and delete_asset, MaxFound of them *)
MaxFound == 3
Found(st) == st.devices.found + st.assets.found

DeleteDevice ==
    \E id \in Ids, b \in Behaviours :
        LET r == delete_device(id, id, dry_run, stats, b)
        IN /\ Found(stats) < MaxFound
           /\ Cleaned("delete_device", id, r, [result |-> r.result, message |-> r.message])

DeleteAsset ==
    \E id \in Ids, b \in Behaviours :
        LET r == delete_asset(id, id, dry_run, stats, b)
        IN /\ Found(stats) < MaxFound
           /\ Cleaned("delete_asset", id, r, [result |-> r.result, message |-> r.message])

(* the files of entities given to cleanup_from_file *)
EntityFiles ==
    {[NoEntities EXCEPT !.devices = d, !.gateways = g, !.rooms = r] :
        d \in {<<>>, <<"DW1">>, <<"DW1", "not found">>},
        g \in {<<>>, <<"GW1">>},
        r \in {<<>>, <<"Room1">>}}

CleanupFromFile ==
    \E entities \in EntityFiles \cup {NoEntitiesFile} :
        \E answers \in [1..(IF entities = NoEntitiesFile THEN 0 ELSE Len(Targets(entities)))
                            -> Behaviours] :
            LET r == cleanup_from_file(entities, dry_run, stats, answers)
            IN Cleaned("cleanup_from_file", entities, r, r.success)

(* platforms holding at most MaxHeld entities, and searches of which at     *)
(* most one fails *)
MaxHeld == 2
Platforms == {h \in SUBSET HeldEntities : Cardinality(h) <= MaxHeld}
Failing(ps) == {{}} \cup {{<<t, p>>} : t \in {"device", "asset"}, p \in ps}

CleanupByPattern ==
    \E pattern \in {"", "DW*", "Test*"}, device_type \in {"", "device", "asset", "all"},
       held \in Platforms, confirm \in {"yes", "no"} :
        \E failing \in Failing({pattern}), answers \in [1..Cardinality(held) -> Behaviours] :
            LET r == cleanup_by_pattern(pattern, device_type, held, failing, confirm,
                                        dry_run, stats, answers)
            IN Cleaned("cleanup_by_pattern", <<pattern, device_type>>, r, r.success)

CleanupAllTestData ==
    \E held \in Platforms :
        \E failing \in Failing({"DW*", "Room*"}),
           answers \in [{e.id : e \in held} -> Behaviours] :
            LET r == cleanup_all_test_data(held, failing, answers, dry_run, stats)
            IN Cleaned("cleanup_all_test_data", held, r, r.success)

(* a cleaner as main constructs it, with --dry-run or without *)
InitCleaner ==
    /\ files = [p \in Paths |-> NoFile]
    /\ cache = [l \in Loaders |-> [p \in Paths |-> NotCached]]
    /\ reads = [l \in Loaders |-> [p \in Paths |-> 0]]
    /\ fsops = 0
    /\ last = NoCall
    /\ sent = <<>>
    /\ dry_run \in BOOLEAN
    /\ stats = NoStats
    /\ created_entities = NoEntities

(* main: one cleanup operation on the new cleaner, chosen by the arguments *)
NextCleaner ==
    /\ last.op = "none"
    /\ \/ CleanupFromFile
       \/ CleanupByPattern
       \/ CleanupAllTestData

SpecCleaner == InitCleaner /\ [][NextCleaner]_vars

(* the cleaner used through delete_device and delete_asset alone *)
NextDeletes ==
    \/ DeleteDevice
    \/ DeleteAsset

SpecDeletes == InitCleaner /\ [][NextDeletes]_vars

----------------------------------------------------------------------------
(* The enhanced provisioner's requests                                      *)
(* (src/test-scenarios/provision-scenario.py) *)

HTTP_RETRY_ATTEMPTS == 3
HTTP_RETRY_DELAY == 2

(* what one invocation of the request method does: it returns a response   *)
(* (its status code) or raises *)
Responses == {"200", "400", "500"}
Raises == {"ConnectionError", "Timeout", "ValueError"}

AnyException(outcome) == outcome \in Raises

(* except (ConnectionError, Timeout) *)
Retryable(outcome) == outcome \in {"ConnectionError", "Timeout"}

RECURSIVE Attempts(_, _, _)
(* the loop of _http_request_with_retry from the given attempt on,         *)
(* outcomes[k] being what the k-th invocation does: the number of          *)
(* invocations, the seconds slept, and the response returned or the        *)
(* exception that leaves the function *)
Attempts(outcomes, attempt, slept) ==
    IF attempt >= HTTP_RETRY_ATTEMPTS
    THEN [calls |-> attempt, slept |-> slept, result |-> None]
    ELSE LET outcome == outcomes[attempt + 1]
         IN IF outcome \in Responses
            THEN [calls |-> attempt + 1, slept |-> slept,
                  result |-> <<"response", outcome>>]
            ELSE IF Retryable(outcome) /\ attempt < HTTP_RETRY_ATTEMPTS - 1
            THEN Attempts(outcomes, attempt + 1, slept + HTTP_RETRY_DELAY)
            ELSE [calls |-> attempt + 1, slept |-> slept, result |-> <<"raised", outcome>>]

_http_request_with_retry(outcomes) == Attempts(outcomes, 0, 0)

(* one call of _http_request_with_retry(method, ...): the invocations made *)
(* are the exchanges sent *)
Request ==
    \E method \in {"GET", "POST", "DELETE"},
       outcomes \in [1..(HTTP_RETRY_ATTEMPTS + 1) -> Responses \cup Raises] :
        LET r == _http_request_with_retry(outcomes)
        IN /\ sent' = [k \in 1..r.calls |-> Exchange(method, "", "", outcomes[k])]
           /\ last' = [NoCall EXCEPT !.op = "_http_request_with_retry",
                                     !.config = outcomes, !.result = r]
           /\ UNCHANGED <<files, cache, reads, fsops, dry_run, stats, created_entities>>

InitRetry == InitCleaner /\ ~dry_run

NextRetry == last.op = "none" /\ Request

SpecRetry == InitRetry /\ [][NextRetry]_vars

----------------------------------------------------------------------------
(* The basic cleaner (src/cleanup-scenario.py) *)

(* response.raise_for_status() raises on 4xx and 5xx *)
RaisesForStatus(answer) == answer \in {"400", "404", "500"}

(* delete_device / delete_asset of the basic cleaner: the DELETE, and True *)
(* unless the request or raise_for_status raised *)
DeleteRequest(type, id, answer) ==
    [sent |-> << Exchange("DELETE", type, id, answer) >>,
     ok |-> answer # "ConnectionError" /\ ~RaisesForStatus(answer)]

Listed(type, list, entities) ==
    [i \in DOMAIN entities |-> [type |-> type, list |-> list, id |-> entities[i].id]]

SitesFirst(entities) ==
    Listed("asset", "sites", entities.sites)
        \o Listed("asset", "buildings", entities.buildings)
        \o Listed("asset", "floors", entities.floors)
        \o Listed("asset", "rooms", entities.rooms)
        \o Listed("device", "gateways", entities.gateways)
        \o Listed("device", "devices", entities.devices)

(* the loops of cleanup_from_file in their order: devices and gateways     *)
(* through delete_device, rooms, floors, buildings, sites through          *)
(* delete_asset *)
DevicesFirst(entities) ==
    Listed("device", "devices", entities.devices)
        \o Listed("device", "gateways", entities.gateways)
        \o Listed("asset", "rooms", entities.rooms)
        \o Listed("asset", "floors", entities.floors)
        \o Listed("asset", "buildings", entities.buildings)
        \o Listed("asset", "sites", entities.sites)

RECURSIVE DeleteListed(_, _, _, _)
DeleteListed(listed, answers, i, acc) ==
    IF i > Len(listed) THEN acc
    ELSE LET r == DeleteRequest(listed[i].type, listed[i].id, answers[i])
             list == listed[i].list
         IN DeleteListed(listed, answers, i + 1,
                         [sent |-> acc.sent \o r.sent,
                          deleted_counts |->
                              IF r.ok
                              THEN [acc.deleted_counts EXCEPT ![list] = acc.deleted_counts[list] + 1]
                              ELSE acc.deleted_counts,
                          result |-> TRUE])

(* cleanup_from_file(file_path) of the basic cleaner; entities is the      *)
(* content of the file, or NoEntitiesFile *)
BasicCleanupFromFile(entities, answers) ==
    IF entities = NoEntitiesFile
    THEN [sent |-> <<>>, deleted_counts |-> <<>>, result |-> FALSE]
    ELSE DeleteListed(DevicesFirst(entities), answers, 1,
                      [sent |-> <<>>,
                       deleted_counts |-> [devices |-> 0, gateways |-> 0, rooms |-> 0,
                                           floors |-> 0, buildings |-> 0, sites |-> 0],
                       result |-> TRUE])

(* a provisioned entity as the file holds it, its id a prefix and a number *)
Entity(id) == [id |-> id, name |-> id]

(* files of provisioned entities: none, one or MaxDevices devices, and of  *)
(* every other kind none or one *)
MaxDevices == 2
DeviceLists == {[i \in 1..n |-> Entity(<<"DW", i>>)] : n \in 0..MaxDevices}
ProvisionedFiles ==
    {[devices |-> d, gateways |-> g, rooms |-> r, floors |-> f, buildings |-> b, sites |-> s] :
        d \in DeviceLists,
        g \in {<<>>, <<Entity(<<"GW", 1>>)>>}, r \in {<<>>, <<Entity(<<"Room", 1>>)>>},
        f \in {<<>>, <<Entity(<<"Floor", 1>>)>>}, b \in {<<>>, <<Entity(<<"Building", 1>>)>>},
        s \in {<<>>, <<Entity(<<"Site", 1>>)>>}}

BasicAnswers == {"200", "404", "ConnectionError"}

BasicCleanup ==
    \E entities \in ProvisionedFiles \cup {NoEntitiesFile} :
        \E answers \in [1..(IF entities = NoEntitiesFile THEN 0
                            ELSE Len(DevicesFirst(entities))) -> BasicAnswers] :
            LET r == BasicCleanupFromFile(entities, answers)
            IN /\ sent' = r.sent
               /\ last' = [NoCall EXCEPT !.op = "cleanup_from_file", !.config = entities,
                                         !.result = r]
               /\ UNCHANGED <<files, cache, reads, fsops, dry_run, stats, created_entities>>

NextBasicCleaner == last.op = "none" /\ BasicCleanup

SpecBasicCleaner == InitRetry /\ [][NextBasicCleaner]_vars

----------------------------------------------------------------------------
(* The provisioners: "basic" is src/provision-scenario.py, "enhanced" is   *)
(* src/test-scenarios/provision-scenario.py.  A scenario is the site name, *)
(* the declared totals and the buildings; a building, floor or room is     *)
(* [level, name, children], a gateway has no children but the range of its *)
(* devices, [count, start, end].  Entities are known by their names. *)

Node(level, name, children) == [level |-> level, name |-> name, children |-> children]
Gateway(name, devices) ==
    [level |-> "gateways", name |-> name, children |-> <<>>, devices |-> devices]

(* for i in range(start, end + 1): the devices of a gateway *)
Devices(gateway) ==
    [k \in 1..(gateway.devices.end - gateway.devices.start + 1) |->
        Node("devices", <<"DW", gateway.devices.start + k - 1>>, <<>>)]

Below(node) == IF node.level = "gateways" THEN Devices(node) ELSE node.children

RECURSIVE Flat(_)
(* the buildings, floors, rooms and gateways of a list of nodes, parents   *)
(* first *)
Flat(nodes) ==
    IF nodes = <<>> THEN <<>>
    ELSE <<Head(nodes)>> \o Flat(Head(nodes).children) \o Flat(Tail(nodes))

RECURSIVE Sum(_)
Sum(q) == IF q = <<>> THEN 0 ELSE Head(q) + Sum(Tail(q))

Levels == <<"sites", "buildings", "floors", "rooms", "gateways", "devices">>

(* the counts validate_scenario takes of the scenario *)
actual_counts(scenario) ==
    LET all == Flat(scenario.buildings)
        at(level) == Cardinality({i \in DOMAIN all : all[i].level = level})
    IN [sites |-> IF scenario.site # <<>> THEN 1 ELSE 0,
        buildings |-> at("buildings"), floors |-> at("floors"), rooms |-> at("rooms"),
        gateways |-> at("gateways"),
        devices |-> Sum([i \in DOMAIN all |->
                            IF all[i].level = "gateways" THEN all[i].devices.count ELSE 0])]

ValidateTotalsOnly(tool, scenario, confirm) ==
    \A i \in DOMAIN Levels :
        scenario.totals[Levels[i]] \in {0, actual_counts(scenario)[Levels[i]]}

(* validate_scenario: the basic one fails on a room without exactly one    *)
(* gateway and asks the operator on a mismatch of counts; the enhanced one *)
(* fails on either, a declared total of 0 counting as not declared *)
validate_scenario(tool, scenario, confirm) ==
    LET all == Flat(scenario.buildings)
        one_gateway == \A i \in DOMAIN all :
                           all[i].level = "rooms" => Len(all[i].children) = 1
        ranges == \A i \in DOMAIN all :
                      all[i].level = "gateways"
                          => all[i].devices.count
                                 = all[i].devices.end - all[i].devices.start + 1
        declared(level) == scenario.totals[level]
        actual == actual_counts(scenario)
    IN IF tool = "basic"
       THEN /\ one_gateway
            /\ (ranges /\ \A i \in DOMAIN Levels : declared(Levels[i]) = actual[Levels[i]])
                   \/ confirm \in {"yes", "y"}
       ELSE /\ \A i \in DOMAIN Levels :
                   declared(Levels[i]) \in {0, actual[Levels[i]]}
            /\ one_gateway

(* how the platform treats the creation of an entity: "created"; "exists"  *)
(* (one of that name is there); "failed" (the POST is answered 500) *)
CreateAnswers == {"created", "exists", "failed"}

IsAsset(node) == node.level \in {"sites", "buildings", "floors", "rooms"}

(* create_asset / create_device for a node: the exchanges and whether an   *)
(* entity was returned.  The basic provisioner looks the name up, deletes  *)
(* what it finds and posts; the enhanced one posts, and on 400 'already    *)
(* exists' replaces an asset but gives up on a device.  Attributes go to   *)
(* sites, buildings and rooms; the basic one sets a gateway's credentials  *)
(* inside create_device *)
Create(tool, node, b) ==
    LET kind == IF IsAsset(node) THEN "asset" ELSE "device"
        post(answer) == << Exchange("POST", kind, node.name, answer) >>
        attributes == IF node.level \in {"sites", "buildings", "rooms"}
                      THEN << Exchange("POST", "attributes", node.name, "200") >>
                      ELSE <<>>
        credentials == << Exchange("GET", "credentials", node.name, "200"),
                          Exchange("POST", "credentials", node.name, "200") >>
        replaced == << Exchange("DELETE", kind, node.name, "200") >>
    IN IF tool = "basic"
       THEN [sent |-> << Exchange("GET", "lookup", node.name,
                                  IF b = "exists" THEN "found" ELSE "none") >>
                          \o (IF b = "exists" THEN replaced ELSE <<>>)
                          \o post(IF b = "failed" THEN "500" ELSE "200")
                          \o (IF b # "failed" THEN attributes ELSE <<>>)
                          \o (IF b # "failed" /\ node.level = "gateways"
                              THEN credentials ELSE <<>>),
             created |-> b # "failed"]
       ELSE IF IsAsset(node)
       THEN [sent |-> CASE b = "created" -> post("200") \o attributes
                        [] b = "exists" ->
                               post("400")
                                   \o << Exchange("GET", "lookup", node.name, "found") >>
                                   \o replaced \o post("200") \o attributes
                        [] OTHER -> post("500"),
             created |-> b # "failed"]
       ELSE [sent |-> post(CASE b = "created" -> "200" [] b = "exists" -> "400"
                             [] OTHER -> "500"),
             created |-> b = "created"]

GoesOnAlways(tool, node, b) == TRUE

(* whether the provisioner goes on with the node and what is below it: its *)
(* create returned an entity, or, in the enhanced one, it is a gateway     *)
(* that the lookup by name then finds on the platform *)
GoesOn(tool, node, b) ==
    \/ Create(tool, node, b).created
    \/ tool = "enhanced" /\ node.level = "gateways" /\ b = "exists"

RECURSIVE ProvisionEach(_, _, _, _, _, _)
(* the loop over the nodes below one parent, from the i-th on.  acc is the *)
(* exchanges so far, created_entities, and whether the run was given up    *)
(* (the enhanced provisioner returns False when a relation fails) *)
ProvisionEach(tool, nodes, i, answers, relfail, acc) ==
    IF acc.aborted \/ i > Len(nodes) THEN acc
    ELSE LET node == nodes[i]
             b == answers[node.name]
             c == Create(tool, node, b)
             lookup == IF tool = "enhanced" /\ node.level = "gateways" /\ ~c.created
                       THEN << Exchange("GET", "lookup", node.name,
                                        IF b = "exists" THEN "found" ELSE "none") >>
                       ELSE <<>>
             created == IF c.created
                        THEN [acc.created EXCEPT ![node.level] = Append(@, node.name)]
                        ELSE acc.created
             relation == << Exchange("POST", "relation", node.name,
                                     IF relfail = node.name THEN "500" ELSE "200") >>
             credentials == << Exchange("GET", "credentials", node.name, "200"),
                               Exchange("POST", "credentials", node.name, "200") >>
             protocol == << Exchange("POST", "attributes", node.name, "200") >>
             after ==
                 IF tool = "basic"
                 THEN (IF node.level \in {"gateways", "devices"} THEN protocol ELSE <<>>)
                          \o relation
                 ELSE CASE node.level = "gateways" ->
                               relation \o (IF relfail = node.name THEN <<>>
                                            ELSE credentials \o protocol)
                        [] node.level = "devices" -> credentials \o relation
                        [] OTHER -> relation
             aborted == tool = "enhanced" /\ relfail = node.name
             here == [sent |-> acc.sent \o c.sent \o lookup
                                   \o (IF GoesOn(tool, node, b) THEN after ELSE <<>>),
                      created |-> created,
                      aborted |-> GoesOn(tool, node, b) /\ aborted]
             below == IF GoesOn(tool, node, b)
                      THEN ProvisionEach(tool, Below(node), 1, answers, relfail, here)
                      ELSE here
         IN ProvisionEach(tool, nodes, i + 1, answers, relfail, below)

(* provision_scenario: nothing is sent unless the scenario validates; the  *)
(* enhanced provisioner first posts the device profile when its file is    *)
(* there; a site that is not created ends the run *)
provision_scenario(tool, scenario, confirm, profile, answers, relfail) ==
    LET site == Node("sites", scenario.site, scenario.buildings)
        c == Create(tool, site, answers[scenario.site])
        profiled == IF tool = "enhanced" /\ profile
                    THEN << Exchange("GET", "deviceProfile", <<"FFU", 0>>, "200"),
                            Exchange("POST", "deviceProfile", <<"FFU", 0>>, "200") >>
                    ELSE <<>>
        r == ProvisionEach(tool, scenario.buildings, 1, answers, relfail,
                           [sent |-> profiled \o c.sent,
                            created |-> [NoEntities EXCEPT !.sites = <<scenario.site>>],
                            aborted |-> FALSE])
    IN IF scenario = NoEntitiesFile \/ ~validate_scenario(tool, scenario, confirm)
       THEN [sent |-> <<>>, created |-> NoEntities, result |-> FALSE]
       ELSE IF ~c.created
       THEN [sent |-> profiled \o c.sent, created |-> NoEntities, result |-> FALSE]
       ELSE [sent |-> r.sent, created |-> r.created, result |-> ~r.aborted]

(* The scenarios provisioned here: one building with one floor, whose      *)
(* rooms hold the given numbers of gateways, a second building without     *)
(* floors when asked for, one device to a gateway, and totals that are     *)
(* not declared, declared as counted, or declared with one room too many *)
RoomOf(k, gateways) ==
    Node("rooms", <<"Room", k>>,
         [g \in 1..gateways |->
             Gateway(<<"GW", 10 * k + g>>,
                     [count |-> 1, start |-> 10 * k + g, end |-> 10 * k + g])])

Building(counts, second) ==
    << Node("buildings", <<"Building", 1>>,
            << Node("floors", <<"Floor", 1>>,
                    [k \in DOMAIN counts |-> RoomOf(k, counts[k])]) >>) >>
        \o (IF second THEN << Node("buildings", <<"Building", 2>>, <<>>) >> ELSE <<>>)

ScenarioOf(counts, second, totals) ==
    LET undeclared == [sites |-> 0, buildings |-> 0, floors |-> 0, rooms |-> 0,
                       gateways |-> 0, devices |-> 0]
        s == [site |-> <<"Site", 1>>, buildings |-> Building(counts, second),
              totals |-> undeclared]
    IN CASE totals = "undeclared" -> s
         [] totals = "counted" -> [s EXCEPT !.totals = actual_counts(s)]
         [] OTHER -> [s EXCEPT !.totals = [actual_counts(s) EXCEPT !.rooms = @ + 1]]

GatewayCounts == { <<0>>, <<1>>, <<2>>, <<1, 1>>, <<1, 2>> }

Scenarios ==
    { ScenarioOf(counts, FALSE, totals) :
          counts \in GatewayCounts, totals \in {"undeclared", "counted", "miscounted"} }
        \cup { ScenarioOf(<<1>>, TRUE, "counted") }

Names(scenario) ==
    LET all == Flat(scenario.buildings)
    IN {scenario.site} \cup {all[i].name : i \in DOMAIN all}
           \cup UNION { {Devices(all[i])[k].name : k \in DOMAIN Devices(all[i])} :
                            i \in {j \in DOMAIN all : all[j].level = "gateways"} }

(* the platform answers "created" to all but at most MaxTroubles of the    *)
(* entities, and at most one relation fails *)
MaxTroubles == 2

PlatformAnswers(scenario) ==
    UNION { [troubled -> CreateAnswers \ {"created"}] :
                troubled \in {t \in SUBSET Names(scenario) : Cardinality(t) <= MaxTroubles} }

AnswerOf(troubles, names) ==
    [n \in names |-> IF n \in DOMAIN troubles THEN troubles[n] ELSE "created"]

NoRelation == <<"none", 0>>

Provisioned(tool, scenario, r) ==
    /\ sent' = r.sent
    /\ created_entities' = r.created
    /\ last' = [NoCall EXCEPT !.op = "provision_scenario",
                              !.config = [tool |-> tool, scenario |-> scenario],
                              !.result = r.result]
    /\ UNCHANGED <<files, cache, reads, fsops, dry_run, stats>>

Provision(tool, confirms, profiles) ==
    \E scenario \in Scenarios \cup {NoEntitiesFile}, confirm \in confirms, profile \in profiles :
        LET names == IF scenario = NoEntitiesFile THEN {} ELSE Names(scenario)
        IN \E troubles \in (IF names = {} THEN {<<>>} ELSE PlatformAnswers(scenario)),
              relfail \in (names \cup {NoRelation}) :
               Provisioned(tool, scenario,
                           provision_scenario(tool, scenario, confirm, profile,
                                              AnswerOf(troubles, names), relfail))

BasicProvision == Provision("basic", {"yes", "no"}, {FALSE})

EnhancedProvision == Provision("enhanced", {"yes"}, BOOLEAN)

NextProvision == last.op = "none" /\ (BasicProvision \/ EnhancedProvision)

SpecProvision == InitRetry /\ [][NextProvision]_vars

----------------------------------------------------------------------------
(* Claims *)

RECURSIVE MergedAsClaimed(_, _, _)
(* R is D overlaid with E: the keys of both, D's value for a key of D only, *)
(* E's value for a key of E only, and for a key of both the merge of the    *)
(* two values if both are dicts, else E's value whole *)
MergedAsClaimed(D, E, R) ==
    /\ DictKeys(R) = DictKeys(D) \cup DictKeys(E)
    /\ Len(R) = Cardinality(DictKeys(R))
    /\ \A k \in DictKeys(R) :
           IF ~DictHas(E, k) THEN DictGet(R, k) = DictGet(D, k)
           ELSE IF ~DictHas(D, k) THEN DictGet(R, k) = DictGet(E, k)
           ELSE IF IsDict(DictGet(D, k)) /\ IsDict(DictGet(E, k))
                THEN /\ IsDict(DictGet(R, k))
                     /\ MergedAsClaimed(DictGet(D, k)[2], DictGet(E, k)[2],
                                        DictGet(R, k)[2])
                ELSE DictGet(R, k) = DictGet(E, k)

(* C4: the document the dev loader returns for a base D and an overlay E   *)
(* keeps the keys only in D, has the keys only in E, merges dict with dict  *)
(* recursively and otherwise takes E's value whole (a list is replaced);    *)
(* the base object is left as it was *)
C4_MergeKeepsOverridesAdds ==
    (last.op = "telemetry" /\ ~last.err) =>
        LET D == files[PathOf(TelemetryFile, "")]
            E == files[PathOf(TelemetryFile, "dev")]
        IN /\ IsDict(last.result)
           /\ MergedAsClaimed(D[2], E[2], last.result[2])
           /\ MergeBaseAfter(D, E) = D

(* a merge where a dict met a dict, a list replaced a list and a key came  *)
(* from each side only *)
C4_Witness ==
    /\ last.op = "telemetry" /\ ~last.err
    /\ LET D == files[PathOf(TelemetryFile, "")][2]
           E == files[PathOf(TelemetryFile, "dev")][2]
       IN /\ DictHas(D, K("a")) /\ DictHas(E, K("a"))
          /\ IsDict(DictGet(D, K("a"))) /\ IsDict(DictGet(E, K("a")))
          /\ DictKeys(DictGet(D, K("a"))[2]) = {K("a")}
          /\ DictKeys(DictGet(E, K("a"))[2]) = {K("b")}
          /\ DictKeys(DictGet(last.result[2], K("a"))[2]) = {K("a"), K("b")}

(* the document a load is to return by the rules of the store *)
ExpectedDocument(fs, l, req) ==
    LET base == PathOf(req, "")
        env == PathOf(req, environment(l))
    IN IF environment(l) = "" THEN fs[base]
       ELSE IF exists(fs, env) /\ exists(fs, base) THEN _merge_configs(fs[base], fs[env])
       ELSE IF exists(fs, env) THEN fs[env]
       ELSE fs[base]

(* C5: a load that returns gives merge(base, overlay) when the loader has  *)
(* an environment and both files exist, the overlay alone when only it      *)
(* exists, the base document itself when there is no overlay (the fallback  *)
(* merges the base with itself) or no environment *)
C5_LoadedDocument ==
    (last.op # "none" /\ ~last.err) =>
        last.config = ExpectedDocument(files, last.loader, last.req)

(* the dev loader fell back to the base file, which it merged with itself *)
C5_WitnessFallback ==
    /\ last.op # "none" /\ ~last.err /\ last.loader = "dev"
    /\ ~exists(files, PathOf(last.req, "dev"))
    /\ last.config = files[PathOf(last.req, "")]

(* C6 as stated: a loader reads storage at most once per (environment,     *)
(* relative path) pair, whatever happens to the files between the loads *)
C6_OncePerPair ==
    \A l \in Loaders, req \in Requests :
        reads[l][PathOf(req, "")] + reads[l][PathOf(req, "dev")] <= 1

(* C6 amended: a loader reads storage at most once per resolved path (the  *)
(* cache key): a path is in the cache exactly if it was read once, and a    *)
(* load of a cached path returns the cached document whatever the files     *)
(* have become *)
C6_OncePerResolvedPath ==
    /\ \A l \in Loaders, p \in Paths :
           /\ reads[l][p] <= 1
           /\ (reads[l][p] = 1) <=> (cache[l][p] # NotCached)
    /\ (last.op # "none" /\ last.hit) =>
           /\ ~last.err
           /\ last.config = cache[last.loader][last.path]

(* a load served from the cache although the file is gone from storage *)
C6_Witness ==
    /\ last.op # "none" /\ last.hit
    /\ ~exists(files, last.path)
    /\ reads[last.loader][last.path] = 1

C8_MissingDocumentRaises ==
    [][(/\ last'.op # "none"
        /\ ~exists(files, PathOf(last'.req, ""))
        /\ ~exists(files, PathOf(last'.req, "dev")))
       => (last'.err /\ last'.result = NoResult /\ cache' = cache)]_vars

(* the dev loader's telemetry load ended in the error, no file of any      *)
(* document being on storage *)
C8_Witness ==
    /\ last.err /\ last.op = "telemetry" /\ last.loader = "dev"
    /\ \A p \in Paths : ~exists(files, p)

SelectorKeys == <<K("classification"), Key2("building", "type"), Key2("site", "type")>>

(* the first of classification, building_type, site_type that is in attrs  *)
(* with a value that is a key of overrides: its position, 0 if none *)
FirstMatch(attrs, overrides) ==
    LET matches(i) == /\ DictHas(attrs, SelectorKeys[i])
                      /\ InDict(DictGet(attrs, SelectorKeys[i]), overrides)
    IN IF \E i \in 1..3 : matches(i)
       THEN CHOOSE i \in 1..3 : matches(i) /\ \A j \in 1..(i - 1) : ~matches(j)
       ELSE 0

(* the non-None entries of the context *)
Given(context) == SelectSeq(context, LAMBDA e : ~IsNone(e[2]))

AssetReturned == last.op = "asset" /\ ~last.err

LastBlock ==
    AppliedOverride(ApplyContext(DictGetOrEmpty(last.config[2], K("default"))[2],
                                 last.context),
                    last.config)

(* the value the result is to have for a context key k: the block's if the *)
(* applied block has k, else the context's *)
Winner(k) == IF DictHas(LastBlock, k) THEN DictGet(LastBlock, k)
             ELSE DictGet(last.context, k)

(* C2 as stated: every context key with a non-None value is in the result  *)
(* with the context's value, or the applied block's value if the block has  *)
(* the key, installation_date and total_buildings included *)
C2_ContextOrOverrideValue ==
    AssetReturned =>
        \A k \in DictKeys(Given(last.context)) :
            /\ DictHas(last.result[2], k)
            /\ DictGet(last.result[2], k) = Winner(k)

(* C2 amended: the same, except where post-processing rewrites the value:  *)
(* an installation_date that comes out as "auto" is the generated time, a   *)
(* total_buildings that comes out as None (from the block) is 1 *)
C2_ContextOrOverrideThenDynamic ==
    AssetReturned =>
        \A k \in DictKeys(Given(last.context)) :
            /\ DictHas(last.result[2], k)
            /\ DictGet(last.result[2], k) =
                   IF k = Key2("installation", "date") /\ Winner(k) = S("auto")
                   THEN DaysAgoText(last.days_ago)
                   ELSE IF k = Key2("total", "buildings") /\ IsNone(Winner(k))
                   THEN IntV(1)
                   ELSE Winner(k)

(* a context value that replaced default's, next to one the block replaced *)
C2_Witness ==
    /\ AssetReturned
    /\ DictHas(last.context, K("classification"))
    /\ DictGet(last.context, K("classification")) = S("lab")
    /\ DictHas(DictGetOrEmpty(last.config[2], K("default"))[2], K("classification"))
    /\ DictGet(DictGetOrEmpty(last.config[2], K("default"))[2], K("classification")) = S("ISO5")
    /\ DictHas(last.context, Key2("total", "buildings"))
    /\ DictGet(last.context, Key2("total", "buildings")) = IntV(3)
    /\ DictGet(last.result[2], K("classification")) = S("lab")
    /\ DictGet(last.result[2], Key2("total", "buildings")) = IntV(1)

DeviceReturned == last.op = "device" /\ ~last.err /\ last.result # Raised

(* a specifier _process_value hands on as a dict of its processed children *)
PlainDict(v) ==
    /\ IsDict(v)
    /\ ~(DictHas(v[2], K("min")) /\ DictHas(v[2], K("max")))
    /\ ~(DictHas(v[2], K("prefix")) /\ DictHas(v[2], K("format")))

(* C3: no value of the mapping load_device_attributes returns is a         *)
(* mapping, whatever the nesting depth of the document, and every child c   *)
(* of a nested entry k of a section is there under k_c *)
C3_DeviceResultIsFlat ==
    DeviceReturned =>
        /\ \A i \in DOMAIN last.result[2] : ~IsDict(last.result[2][i][2])
        /\ \A i \in DOMAIN last.config[2] :
               IsDict(last.config[2][i][2]) =>
                   \A j \in DOMAIN last.config[2][i][2][2] :
                       LET e == last.config[2][i][2][2][j]
                       IN PlainDict(e[2]) =>
                              \A c \in DictKeys(e[2][2]) :
                                  DictHas(last.result[2], e[1] \o <<"_">> \o c)

(* the entry serial_number of the section device_info, when it is there    *)
(* with a value that is no mapping *)
HasSerialEntry ==
    /\ DeviceReturned
    /\ DictHas(last.config[2], DeviceInfo)
    /\ IsDict(DictGet(last.config[2], DeviceInfo))
    /\ DictHas(DictGet(last.config[2], DeviceInfo)[2], SerialNumber)
    /\ ~IsDict(DictGet(DictGet(last.config[2], DeviceInfo)[2], SerialNumber))

SerialEntry == DictGet(DictGet(last.config[2], DeviceInfo)[2], SerialNumber)

(* C9 as stated: the value of device_info.serial_number is in the result   *)
(* under the key device_info_serial_number *)
C9_SectionPrefixedKey ==
    HasSerialEntry =>
        DictHas(last.result[2], DeviceInfo \o <<"_">> \o SerialNumber)

(* C9 amended: the processed value is in the result under the entry's own  *)
(* name serial_number, the section's name taking no part: a scalar entry is *)
(* there as processed (as written, unless it holds doubled braces) unless a *)
(* later section writes serial_number again, and the entry produces no key  *)
(* device_info_serial_number *)
C9_EntryNameKey ==
    (HasSerialEntry /\ ~IsList(SerialEntry)) =>
        /\ DictHas(last.result[2], SerialNumber)
        /\ ~DictHas(last.result[2], DeviceInfo \o <<"_">> \o SerialNumber)
        /\ ~DictHas(last.config[2], K("extra")) =>
               DictGet(last.result[2], SerialNumber) =
                   IF IsTemplate(SerialEntry)
                   THEN StrV(_process_template(SerialEntry[2], last.device_index))
                   ELSE SerialEntry

(* the entry is a string and came out under serial_number *)
C9_Witness ==
    /\ HasSerialEntry
    /\ SerialEntry = S("lit")
    /\ ~DictHas(last.config[2], K("extra"))
    /\ DictGet(last.result[2], SerialNumber) = S("lit")

(* C10: a string entry of a section that holds a "{" and a "}" is template *)
(* expanded: every {device_index} in single braces is replaced by the       *)
(* decimal device index *)
C10_SingleBraceExpanded ==
    DeviceReturned =>
        \A j \in DOMAIN DictGet(last.config[2], DeviceInfo)[2] :
            LET e == DictGet(last.config[2], DeviceInfo)[2][j]
            IN (/\ IsStr(e[2])
                /\ Contains(e[2][2], <<"{">>) /\ Contains(e[2][2], <<"}">>)
                /\ Contains(e[2][2], Placeholder("device_index"))
                /\ Len(DictGet(last.config[2], DeviceInfo)[2]) = 1
                /\ ~DictHas(last.config[2], K("extra")))
               => /\ DictHas(last.result[2], e[1])
                  /\ IsStr(DictGet(last.result[2], e[1]))
                  /\ ~Contains(DictGet(last.result[2], e[1])[2],
                               Placeholder("device_index"))
                  /\ Contains(DictGet(last.result[2], e[1])[2],
                              Decimal(last.device_index))

(* the format handed to _process_template in the last call, and the string *)
(* that came back for it *)
TemplateReturned ==
    /\ DeviceReturned
    /\ DictHas(last.config[2], DeviceInfo)
    /\ DictHas(DictGet(last.config[2], DeviceInfo)[2], K("x"))
    /\ LET x == DictGet(DictGet(last.config[2], DeviceInfo)[2], K("x"))
       IN IsDict(x) /\ DictHas(x[2], K("prefix")) /\ DictHas(x[2], K("format"))
                    /\ IsStr(DictGet(x[2], K("format")))

TemplateGiven == DictGet(DictGet(DictGet(last.config[2], DeviceInfo)[2], K("x"))[2], K("format"))[2]
TemplateResult == DictGet(last.result[2], K("x"))[2]

RECURSIVE CountOcc(_, _)
(* the non-overlapping occurrences of sub in s, left to right *)
CountOcc(s, sub) ==
    IF Len(s) < Len(sub) THEN 0
    ELSE IF SubSeq(s, 1, Len(sub)) = sub
         THEN 1 + CountOcc(SubSeq(s, Len(sub) + 1, Len(s)), sub)
         ELSE CountOcc(Tail(s), sub)

(* the text of datetime.now().isoformat() and of                           *)
(* datetime.now().strftime('%Y-%m-%d') at the call *)
NowIsoText == <<"<now.isoformat()>">>
NowDateText == <<"<now.strftime(%Y-%m-%d)>">>

(* C11: every {random} of a template is replaced by a generated token (8   *)
(* uppercase alphanumerics if the template holds "string", else 4 digits if *)
(* it holds "number", else 6 digits), every {timestamp} by the time string  *)
(* and every {date} by the date string, never by anything else *)
C11_PlaceholdersGenerated ==
    TemplateReturned =>
        /\ CountOcc(TemplateGiven, Placeholder("random")) > 0 =>
               \E token \in _random_replacement(TemplateGiven) :
                   Contains(TemplateResult, token)
        /\ CountOcc(TemplateGiven, Placeholder("timestamp")) > 0 =>
               Contains(TemplateResult, NowIsoText)
        /\ CountOcc(TemplateGiven, Placeholder("date")) > 0 =>
               Contains(TemplateResult, NowDateText)
        /\ ~Contains(TemplateResult, ReplacementText("random", last.device_index))
        /\ ~Contains(TemplateResult, ReplacementText("timestamp", last.device_index))

(* what the expansion adds to the length per replaced placeholder *)
Growth(key, device_index) == Len(ReplacementText(key, device_index)) - Len(Placeholder(key))

(* C12: a template with none of {device_index}, {random}, {timestamp},     *)
(* {date} comes back unchanged and without error; a placeholder no table    *)
(* entry names stays as it is; every occurrence of a recognized placeholder *)
(* is replaced, none is left, and nothing else of the string changes *)
C12_ExpandsEveryOccurrence ==
    (last.op = "device" /\ ~last.err) =>
        /\ last.result # Raised
        /\ TemplateReturned
        /\ (\A i \in DOMAIN TemplateKeys :
                ~Contains(TemplateGiven, Placeholder(TemplateKeys[i])))
               => TemplateResult = TemplateGiven
        /\ \A i \in DOMAIN TemplateKeys :
               ~Contains(TemplateResult, Placeholder(TemplateKeys[i]))
        /\ CountOcc(TemplateResult, Placeholder("foo")) = CountOcc(TemplateGiven, Placeholder("foo"))
        /\ CountOcc(TemplateResult, Decimal(last.device_index))
               = CountOcc(TemplateGiven, Placeholder("device_index"))
        /\ CountOcc(TemplateResult, ReplacementText("random", last.device_index))
               = CountOcc(TemplateGiven, Placeholder("random"))
        /\ CountOcc(TemplateResult, ReplacementText("timestamp", last.device_index))
               = CountOcc(TemplateGiven, Placeholder("timestamp"))
                 + CountOcc(TemplateGiven, Placeholder("date"))
        /\ Len(TemplateResult) =
               Len(TemplateGiven)
               + CountOcc(TemplateGiven, Placeholder("device_index")) * Growth("device_index", last.device_index)
               + CountOcc(TemplateGiven, Placeholder("random")) * Growth("random", last.device_index)
               + CountOcc(TemplateGiven, Placeholder("timestamp")) * Growth("timestamp", last.device_index)
               + CountOcc(TemplateGiven, Placeholder("date")) * Growth("date", last.device_index)

(* {device_index} twice around a placeholder that no table entry names:    *)
(* both became the index, the other stayed *)
C12_Witness ==
    /\ TemplateReturned
    /\ last.device_index = 12
    /\ TemplateGiven = Placeholder("device_index") \o Placeholder("foo") \o Placeholder("device_index")
    /\ TemplateResult = <<"1", "2">> \o Placeholder("foo") \o <<"1", "2">>

(* the entry x of device_info in the last call's document *)
EntryX == DictGet(DictGet(last.config[2], DeviceInfo)[2], K("x"))

(* the last call resolved a range specifier {min: a, max: b} with a <= b *)
RangeResolved ==
    /\ last.op = "device" /\ ~last.err
    /\ DictHas(last.config[2], DeviceInfo)
    /\ DictHas(DictGet(last.config[2], DeviceInfo)[2], K("x"))
    /\ IsDict(EntryX)
    /\ DictHas(EntryX[2], K("min")) /\ DictHas(EntryX[2], K("max"))
    /\ IsNumber(DictGet(EntryX[2], K("min"))) /\ IsNumber(DictGet(EntryX[2], K("max")))
    /\ AsReal(DictGet(EntryX[2], K("min"))) <= AsReal(DictGet(EntryX[2], K("max")))

(* C13: a range {min: a, max: b} with a <= b resolves without error to a   *)
(* number v with a <= v <= b; v is an integer when both bounds are, both    *)
(* ends being among the draws, and a float exactly when a bound is a float *)
C13_RangeWithinBounds ==
    RangeResolved =>
        LET a == DictGet(EntryX[2], K("min"))
            b == DictGet(EntryX[2], K("max"))
        IN /\ last.result # Raised
           /\ DictHas(last.result[2], K("x"))
           /\ LET v == DictGet(last.result[2], K("x"))
              IN /\ IsNumber(v)
                 /\ AsReal(a) <= AsReal(v) /\ AsReal(v) <= AsReal(b)
                 /\ IsFloat(v) <=> (IsFloat(a) \/ IsFloat(b))
           /\ (~IsFloat(a) /\ ~IsFloat(b)) =>
                  {a, b} \subseteq ProcessValue(EntryX, last.device_index)

(* an integer range of more than one value came out as its upper end *)
C13_Witness ==
    /\ RangeResolved
    /\ DictGet(EntryX[2], K("min")) = IntV(-1)
    /\ DictGet(EntryX[2], K("max")) = IntV(2)
    /\ last.result # Raised
    /\ DictGet(last.result[2], K("x")) = IntV(2)

(* C14: what load_device_attributes returns is one of the mappings it can  *)
(* return for the same document and index with no context at all, the       *)
(* mappings it can return are the same for every context, and no entry of   *)
(* the context is in the result *)
C14_ContextTakesNoPart ==
    (last.op = "device" /\ ~last.err) =>
        /\ last.result \in load_device_attributes(last.config, last.device_index, <<>>)
        /\ \A context \in DeviceContexts :
               load_device_attributes(last.config, last.device_index, context)
                   = load_device_attributes(last.config, last.device_index, <<>>)
        /\ last.result # Raised =>
               \A i \in DOMAIN last.context, j \in DOMAIN last.result[2] :
                   last.context[i] # last.result[2][j]

(* a context with serial_number and site was passed; the result has the    *)
(* document's serial_number and no site *)
C14_Witness ==
    /\ DeviceReturned
    /\ DictHas(last.context, SerialNumber) /\ DictHas(last.context, K("site"))
    /\ DictHas(last.result[2], SerialNumber)
    /\ DictGet(last.result[2], SerialNumber) = S("lit")
    /\ ~DictHas(last.result[2], K("site"))

(* default overlaid with the non-None context values, for the last call *)
DefaultAndContext ==
    ApplyContext(DictGetOrEmpty(last.config[2], K("default"))[2], last.context)

(* the override block the scan of classification, building_type, site_type *)
(* selects in the last call, << >> if it selects none *)
SelectedBlock ==
    LET overrides == DictGetOrEmpty(last.config[2], K("overrides"))[2]
        i == FirstMatch(DefaultAndContext, overrides)
    IN IF i = 0 THEN <<>>
       ELSE DictGet(overrides, DictGet(DefaultAndContext, SelectorKeys[i])[2])[2]

(* a block is selected and applied: the selecting value is a key of        *)
(* overrides and not the empty string *)
OverrideApplied ==
    LET i == FirstMatch(DefaultAndContext, DictGetOrEmpty(last.config[2], K("overrides"))[2])
    IN i # 0 /\ DictGet(DefaultAndContext, SelectorKeys[i]) # StrV(<<>>)

(* what post-processing makes of the value v under key k *)
Dynamic(k, v) ==
    IF k = Key2("installation", "date") /\ v = S("auto") THEN DaysAgoText(last.days_ago)
    ELSE IF k = Key2("total", "buildings") /\ IsNone(v) THEN IntV(1)
    ELSE v

(* C15 as stated: when an override key is selected and its block applied,  *)
(* that one block is merged last over default and context: the keys of the  *)
(* result are theirs and the block's, none from another block, and every    *)
(* key of the block has the block's value in the result *)
C15_BlockMergedLast ==
    (AssetReturned /\ OverrideApplied) =>
        LET attributes == DefaultAndContext
            block == SelectedBlock
        IN /\ DictKeys(last.result[2]) = DictKeys(attributes) \cup DictKeys(block)
           /\ \A k \in DictKeys(block) :
                  DictGet(last.result[2], k) = DictGet(block, k)

(* C15 amended: when the selecting value is not the empty string, the keys *)
(* of the result are those of default, context and the one block; a key of  *)
(* the block has the block's value and any other key the value of default   *)
(* overlaid with context, each as post-processing leaves it *)
C15_BlockMergedThenDynamic ==
    AssetReturned =>
        LET attributes == DefaultAndContext
            overrides == DictGetOrEmpty(last.config[2], K("overrides"))[2]
            i == FirstMatch(attributes, overrides)
            block == DictGet(overrides, DictGet(attributes, SelectorKeys[i])[2])[2]
            result == last.result[2]
        IN (i # 0 /\ DictGet(attributes, SelectorKeys[i]) # StrV(<<>>)) =>
               /\ DictKeys(result) = DictKeys(attributes) \cup DictKeys(block)
               /\ Len(result) = Cardinality(DictKeys(result))
               /\ \A j \in DOMAIN result :
                      result[j][2] =
                          Dynamic(result[j][1],
                                  IF DictHas(block, result[j][1])
                                  THEN DictGet(block, result[j][1])
                                  ELSE DictGet(attributes, result[j][1]))

(* the scenario of the claim: default {classification: ISO8, air: 20},     *)
(* blocks for ISO5 and lab, context {classification: ISO5}: the result is   *)
(* {classification: ISO5, air: 240, pressure: 15} *)
C15_Witness ==
    /\ AssetReturned
    /\ DictHas(last.config[2], K("default"))
    /\ DictGet(last.config[2], K("default")) =
           DictV(<< Pair("classification", S("ISO8")), Pair("air", IntV(20)) >>)
    /\ DictKeys(DictGetOrEmpty(last.config[2], K("overrides"))[2]) = {<<"ISO5">>, <<"lab">>}
    /\ last.context = << Pair("classification", S("ISO5")) >>
    /\ last.result = DictV(<< Pair("classification", S("ISO5")), Pair("air", IntV(240)),
                              Pair("pressure", IntV(15)) >>)

(* the attributes the last call assembled before post-processing: default  *)
(* overlaid with context overlaid with the applied block *)
Assembled ==
    DictUpdate(DefaultAndContext, IF OverrideApplied THEN SelectedBlock ELSE <<>>)

InstallationDate == Key2("installation", "date")
TotalBuildings == Key2("total", "buildings")

(* C16: the result never has installation_date = "auto": an "auto" that    *)
(* default, context or the applied block put there is the time d days       *)
(* before the call, d a whole number from 1 to 730; any other               *)
(* installation_date is as assembled, and none is added *)
C16_AutoDateReplaced ==
    AssetReturned =>
        LET attributes == Assembled
            result == last.result[2]
        IN /\ DictHas(result, InstallationDate) =>
                  DictGet(result, InstallationDate) # S("auto")
           /\ DictHas(result, InstallationDate) <=> DictHas(attributes, InstallationDate)
           /\ DictHas(attributes, InstallationDate) =>
                  IF DictGet(attributes, InstallationDate) = S("auto")
                  THEN /\ DictGet(result, InstallationDate)
                             = DaysAgoText(DictGet(result, InstallationDate)[2])
                       /\ DictGet(result, InstallationDate)[2] \in AutoDaysMin..AutoDaysMax
                  ELSE DictGet(result, InstallationDate)
                           = DictGet(attributes, InstallationDate)

(* the "auto" of the applied block came out as the time 730 days back *)
C16_Witness ==
    /\ AssetReturned
    /\ OverrideApplied
    /\ DictHas(SelectedBlock, InstallationDate)
    /\ DictGet(SelectedBlock, InstallationDate) = S("auto")
    /\ DictHas(last.context, InstallationDate)
    /\ DictGet(last.context, InstallationDate) = S("2020-01-01")
    /\ DictGet(last.result[2], InstallationDate) = DaysAgoText(AutoDaysMax)

(* C17: a total_buildings that is None in the assembled attributes is 1 in *)
(* the result, any other is unchanged, an absent one stays absent (a None   *)
(* in the context does not bring the key in), and post-processing changes   *)
(* no key but total_buildings and installation_date *)
C17_NullBuildingsDefaulted ==
    AssetReturned =>
        LET attributes == Assembled
            result == last.result[2]
        IN /\ DictKeys(result) = DictKeys(attributes)
           /\ DictHas(attributes, TotalBuildings) =>
                  DictGet(result, TotalBuildings) =
                      IF IsNone(DictGet(attributes, TotalBuildings)) THEN IntV(1)
                      ELSE DictGet(attributes, TotalBuildings)
           /\ (/\ ~DictHas(DictGetOrEmpty(last.config[2], K("default"))[2], TotalBuildings)
               /\ ~(OverrideApplied /\ DictHas(SelectedBlock, TotalBuildings))
               /\ ~DictHas(Given(last.context), TotalBuildings))
                  => ~DictHas(result, TotalBuildings)
           /\ \A k \in DictKeys(attributes) \ {TotalBuildings, InstallationDate} :
                  DictGet(result, k) = DictGet(attributes, k)

(* default has total_buildings: null, the context passes None for it, no   *)
(* block is applied: the result has 1 *)
C17_Witness ==
    /\ AssetReturned
    /\ ~OverrideApplied
    /\ DictHas(DictGetOrEmpty(last.config[2], K("default"))[2], TotalBuildings)
    /\ IsNone(DictGet(DictGetOrEmpty(last.config[2], K("default"))[2], TotalBuildings))
    /\ DictHas(last.context, TotalBuildings)
    /\ IsNone(DictGet(last.context, TotalBuildings))
    /\ DictGet(last.result[2], TotalBuildings) = IntV(1)

(* C18: a call on one loader leaves the cache of every other loader as it  *)
(* was; a module-level call with an environment, which runs on a loader of  *)
(* its own, leaves the cache of the module-level loader and of every other  *)
(* loader as it was *)
C18_CachesNotShared ==
    [][last'.op # "none" =>
           \A m \in Loaders : m # last'.loader => cache'[m] = cache[m]]_vars

(* a module-level call with an environment returned a document that the    *)
(* dev loader has cached and the module-level loader has not *)
C18_Witness ==
    /\ last.op # "none" /\ ~last.err /\ last.loader = "fresh"
    /\ cache["dev"][last.path] # NotCached
    /\ \A p \in Paths : cache["default"][p] = NotCached

(* the value written in the document or passed in the context that the     *)
(* result's key k comes from: the applied block's, else the context's if    *)
(* not None, else default's *)
Written(k) ==
    IF OverrideApplied /\ DictHas(SelectedBlock, k) THEN DictGet(SelectedBlock, k)
    ELSE IF DictHas(Given(last.context), k) THEN DictGet(last.context, k)
    ELSE DictGet(DictGetOrEmpty(last.config[2], K("default"))[2], k)

(* the keys of default and of the applied block whose value the result is  *)
(* to carry: those of the block, and those of default that neither the      *)
(* block nor the context writes *)
Carried ==
    LET default == DictGetOrEmpty(last.config[2], K("default"))[2]
        block == IF OverrideApplied THEN SelectedBlock ELSE <<>>
    IN DictKeys(block) \cup (DictKeys(default) \ DictKeys(Given(last.context)))

(* C19 as stated: every value of default and of the applied block is in    *)
(* the result exactly as written, under its own key *)
C19_ValuesAsWritten ==
    AssetReturned =>
        \A k \in Carried :
            /\ DictHas(last.result[2], k)
            /\ DictGet(last.result[2], k) = Written(k)

(* C19 amended: the result has the keys of default, context and applied    *)
(* block and no other (nothing is flattened); a mapping, a sequence or a    *)
(* string is there as written, whatever braces or min/max it holds, and so  *)
(* is every other value except an installation_date "auto" and a null       *)
(* total_buildings, which post-processing rewrites *)
C19_AsWrittenButDynamic ==
    AssetReturned =>
        LET default == DictGetOrEmpty(last.config[2], K("default"))[2]
            block == IF OverrideApplied THEN SelectedBlock ELSE <<>>
            result == last.result[2]
        IN /\ DictKeys(result) = DictKeys(default) \cup DictKeys(Given(last.context))
                                                   \cup DictKeys(block)
           /\ \A j \in DOMAIN result :
                  LET k == result[j][1]
                      w == IF DictHas(block, k) THEN DictGet(block, k)
                           ELSE IF DictHas(Given(last.context), k)
                                THEN DictGet(last.context, k)
                                ELSE DictGet(default, k)
                  IN /\ result[j][2] = Dynamic(k, w)
                     /\ (IsDict(w) \/ IsList(w) \/ (IsStr(w) /\ w # S("auto")))
                            => result[j][2] = w

(* default's nested mapping and template string and the applied block's    *)
(* range and list of mappings are in the result as written *)
C19_Witness ==
    /\ AssetReturned
    /\ OverrideApplied
    /\ DictHas(SelectedBlock, K("zones"))
    /\ DictHas(last.result[2], K("geo")) /\ DictHas(last.result[2], K("name"))
    /\ DictGet(last.result[2], K("geo")) = DictV(<<Pair("lat", DictV(<<Pair("deg", IntV(21))>>))>>)
    /\ DictGet(last.result[2], K("name")) = StrV(<<"R-", "{", "{", "device_index", "}", "}">>)
    /\ DictGet(last.result[2], K("limits")) = DictV(<<Pair("min", IntV(5)), Pair("max", IntV(6))>>)
    /\ DictGet(last.result[2], K("zones")) = ListV(<<DictV(<<Pair("id", IntV(1))>>)>>)

(* the top-level entries of the last call's document that are mappings,    *)
(* in document order, and the others *)
TopSections == SelectSeq(last.config[2], LAMBDA e : IsDict(e[2]))
TopOthers == SelectSeq(last.config[2], LAMBDA e : ~IsDict(e[2]))

(* C20: the result is built from the top-level mappings alone, a top-level *)
(* scalar or sequence adding nothing; the sections' outputs are merged in   *)
(* document order, so a key that device_info and the later section extra    *)
(* both write has the value of extra *)
C20_SectionsMergedInOrder ==
    DeviceReturned =>
        /\ last.result \in load_device_attributes(DictV(TopSections), last.device_index, <<>>)
        /\ \A i \in DOMAIN TopOthers : ~DictHas(last.result[2], TopOthers[i][1])
        /\ \E first \in _process_section(DeviceInfo, DictGet(last.config[2], DeviceInfo)[2],
                                          last.device_index) :
               LET later == IF DictHas(last.config[2], K("extra"))
                            THEN DictGet(last.config[2], K("extra"))[2]
                            ELSE <<>>
               IN /\ DictKeys(last.result[2]) = DictKeys(first[2]) \cup DictKeys(later)
                  /\ \A k \in DictKeys(last.result[2]) :
                         DictGet(last.result[2], k) =
                             IF DictHas(later, k) THEN DictGet(later, k)
                             ELSE DictGet(first[2], k)

(* a document with a top-level sequence, serial_number in device_info and  *)
(* serial_number in the later section: the later value is in the result,    *)
(* the sequence is not *)
C20_Witness ==
    /\ DeviceReturned
    /\ DictHas(last.config[2], K("tags"))
    /\ DictHas(last.config[2], K("extra"))
    /\ DictHas(DictGet(last.config[2], DeviceInfo)[2], SerialNumber)
    /\ DictGet(DictGet(last.config[2], DeviceInfo)[2], SerialNumber) = S("lit")
    /\ DictGet(last.result[2], SerialNumber) = S("late")
    /\ ~DictHas(last.result[2], K("tags"))

(* C21: an asset document without a default section is rejected by        *)
(* validate_file (not valid, with the error that names the missing default *)
(* section), and load_asset_attributes on such a document does not fail    *)
(* and returns what it returns for the same document with an empty default *)
C21_RejectedButLoaded ==
    /\ (last.op = "validate_file" /\ "assets" \in PathWords(last.path)
            /\ IsDict(last.config) /\ ~DictHas(last.config[2], K("default")))
           => /\ ~last.result.valid
              /\ \E i \in DOMAIN last.result.errors :
                     last.result.errors[i] = "Asset config must have 'default' section"
    /\ (last.op = "asset" /\ exists(files, last.path)
            /\ ~DictHas(files[last.path][2], K("default")))
           => /\ ~last.err
              /\ IsDict(last.result)
              /\ last.result =
                     DictV(load_asset_attributes(
                               DictV(<<Pair("default", DictV(<<>>))>> \o last.config[2]),
                               last.context, last.days_ago))

C21_Witness ==
    /\ last.op = "asset"
    /\ ~DictHas(files[last.path][2], K("default"))
    /\ ~validate_file(files, last.path).valid
    /\ IsDict(last.result) /\ last.result[2] # <<>>

(* the entries of the device document last checked, and an error reported  *)
(* under a heading for a key *)
CheckedEntries == SectionEntries(last.config[2], 1)
Reported(heading, key) ==
    \E i \in DOMAIN last.result.errors : last.result.errors[i] = <<heading, key>>

(* C29: the data-integrity check reports an error, and fails, for every    *)
(* device attribute whose name contains "percent" or "percentage" and      *)
(* whose numeric value is outside 0..100, and for every device attribute   *)
(* range with min > max *)
C29_PercentAndRangeReported ==
    (last.op = "_validate_data_integrity" /\ IsDict(last.config))
        => \A i \in DOMAIN CheckedEntries :
               LET key == CheckedEntries[i][1]
                   value == CheckedEntries[i][2]
               IN /\ ((KeyContains(key, "percent") \/ KeyContains(key, "percentage"))
                          /\ IsNumber(value)
                          /\ ~(0 <= AsReal(value) /\ AsReal(value) <= 100 * FloatUnit))
                         => (Reported("Invalid percentage for", key) /\ ~last.result.success)
                  /\ (IsDict(value)
                          /\ DictHas(value[2], K("min")) /\ DictHas(value[2], K("max"))
                          /\ Comparable(DictGet(value[2], K("min")), DictGet(value[2], K("max")))
                          /\ AsReal(DictGet(value[2], K("min")))
                                 > AsReal(DictGet(value[2], K("max"))))
                         => (Reported("Invalid range for", key) /\ ~last.result.success)

(* the same relative path under the other root: telemetry for attributes   *)
(* and attributes for telemetry, the asset file staying where it is *)
OtherRoot(p) ==
    IF p[1] = TelemetryFile[1] THEN <<DeviceFile[1], p[2], p[3]>>
    ELSE IF p[3] = DeviceFile[2] THEN <<TelemetryFile[1], p[2], p[3]>>
    ELSE p
Rerooted(f) == [p \in Paths |-> f[OtherRoot(p)]]

(* C22: a call of load_telemetry_config does what the device-definition    *)
(* load (_load_yaml) does on the same files and cache under the attributes *)
(* root: the same failure, cache hit, cache key, merged document and cache *)
(* afterwards; and it returns that document as it is *)
C22_TelemetryAsDeviceLoad ==
    [][last'.op = "telemetry"
           => LET l == last'.loader
                  r == _load_yaml(Rerooted(files), Rerooted(cache[l]), l, DeviceFile)
              IN /\ last'.err = r.err
                 /\ last'.hit = r.hit
                 /\ last'.path = OtherRoot(r.path)
                 /\ last'.config = r.config
                 /\ last'.result = r.config
                 /\ cache'[l] = Rerooted(r.cache)]_vars

C22_Witness ==
    /\ last.op = "telemetry" /\ last.loader = "dev" /\ ~last.err /\ ~last.hit
    /\ exists(files, PathOf(TelemetryFile, "dev")) /\ exists(files, PathOf(TelemetryFile, ""))
    /\ last.result # files[PathOf(TelemetryFile, "dev")]
    /\ last.result # files[PathOf(TelemetryFile, "")]
    /\ cache["dev"][last.path] = last.result

(* C23: with the cleaner constructed in dry-run mode no cleanup operation   *)
(* (cleanup_from_file, cleanup_by_pattern, cleanup_all_test_data) sends a   *)
(* DELETE; every request is a GET, of an existence check or of a search *)
C23_DryRunSendsNoDelete ==
    dry_run => \A i \in DOMAIN sent : sent[i].method = "GET"

C23_Witness ==
    /\ dry_run
    /\ last.op = "cleanup_all_test_data"
    /\ stats.devices.deleted >= 1 /\ stats.assets.deleted >= 1
    /\ \E i \in DOMAIN sent : sent[i].id = "DW1" /\ sent[i].answer = "200"

(* every entity gone through was missing at the existence check (404), or   *)
(* was there and, unless in dry-run, its DELETE was answered 204 or 404 *)
EveryEntityGone ==
    \A i \in DOMAIN sent :
        sent[i].method = "GET"
            => \/ sent[i].answer = "404"
               \/ /\ sent[i].answer = "200"
                  /\ \/ dry_run
                     \/ /\ i < Len(sent)
                        /\ sent[i + 1].method = "DELETE"
                        /\ sent[i + 1].answer \in {"204", "404"}

(* C24: cleanup_from_file reports success whenever every listed entity was *)
(* deleted or found to no longer exist, be it by the existence pre-check or *)
(* by a 404 to the DELETE *)
C24_MissingNeverFails ==
    (last.op = "cleanup_from_file" /\ last.config # NoEntitiesFile /\ EveryEntityGone)
        => last.result = TRUE

(* C30: for devices and for assets, found = deleted + missing + failed      *)
(* after any sequence of delete_device and delete_asset calls *)
C30_FoundIsSumOfOutcomes ==
    \A kind \in {"devices", "assets"} :
        stats[kind].found = stats[kind].deleted + stats[kind].missing + stats[kind].failed

C30_Witness ==
    /\ Found(stats) = MaxFound
    /\ last.op = "delete_asset"
    /\ stats.devices.failed >= 1
    /\ stats.devices.deleted >= 1
    /\ stats.assets.missing >= 1

(* C25: _http_request_with_retry invokes the request at least once and at  *)
(* most HTTP_RETRY_ATTEMPTS times and ends: every invocation before the    *)
(* last raised a connection error or a timeout and was followed by the     *)
(* delay; a response is returned as soon as one is obtained; a connection  *)
(* error or timeout leaves the function only from the third invocation;    *)
(* any other exception leaves it from the invocation that raised it *)
C25_RetriesConnectionErrorsOnly ==
    last.op = "_http_request_with_retry"
        => LET outcomes == last.config
               n == Len(sent)
           IN /\ n \in 1..HTTP_RETRY_ATTEMPTS
              /\ \A k \in 1..n : sent[k].answer = outcomes[k]
              /\ \A k \in 1..(n - 1) : outcomes[k] \in {"ConnectionError", "Timeout"}
              /\ last.result.calls = n
              /\ last.result.slept = (n - 1) * HTTP_RETRY_DELAY
              /\ IF outcomes[n] \in Responses
                 THEN last.result.result = <<"response", outcomes[n]>>
                 ELSE /\ last.result.result = <<"raised", outcomes[n]>>
                      /\ outcomes[n] \in {"ConnectionError", "Timeout"}
                             => n = HTTP_RETRY_ATTEMPTS

C25_Witness ==
    /\ last.op = "_http_request_with_retry"
    /\ Len(sent) = HTTP_RETRY_ATTEMPTS
    /\ sent[1].answer = "ConnectionError" /\ sent[2].answer = "Timeout"
    /\ last.result.result = <<"raised", "Timeout">>
    /\ last.config[HTTP_RETRY_ATTEMPTS + 1] = "200"

(* the place of a list of the file in the bottom-up order *)
Rank(list) ==
    CASE list = "devices" -> 1 [] list = "gateways" -> 2 [] list = "rooms" -> 3
      [] list = "floors" -> 4 [] list = "buildings" -> 5 [] list = "sites" -> 6

(* the lists of the file last cleaned that hold the id *)
ListsOf(id) ==
    {list \in {"devices", "gateways", "rooms", "floors", "buildings", "sites"} :
        \E i \in DOMAIN last.config[list] : last.config[list][i].id = id}

(* C26: cleanup_from_file of the basic cleaner sends the DELETE of every   *)
(* device before any of a gateway, of every gateway before any of a room,  *)
(* then floors, buildings, sites; and whatever the answers, one DELETE is   *)
(* sent for every entity of the file *)
C26_BottomUpAndComplete ==
    (last.op = "cleanup_from_file" /\ last.config # NoEntitiesFile)
        => /\ \A i, j \in DOMAIN sent :
                  i < j => \A a \in ListsOf(sent[i].id), b \in ListsOf(sent[j].id) :
                               Rank(a) <= Rank(b)
           /\ \A k \in DOMAIN sent : sent[k].method = "DELETE" /\ ListsOf(sent[k].id) # {}
           /\ \A list \in {"devices", "gateways", "rooms", "floors", "buildings", "sites"} :
                  \A i \in DOMAIN last.config[list] :
                      \E k \in DOMAIN sent : sent[k].id = last.config[list][i].id
           /\ Len(sent) = Len(last.config.devices) + Len(last.config.gateways)
                              + Len(last.config.rooms) + Len(last.config.floors)
                              + Len(last.config.buildings) + Len(last.config.sites)
           /\ last.result.result = TRUE

C26_Witness ==
    /\ last.op = "cleanup_from_file" /\ last.config # NoEntitiesFile
    /\ Len(sent) = MaxDevices + 5
    /\ sent[1].answer = "ConnectionError" /\ sent[2].answer = "404"
    /\ sent[Len(sent)].id = <<"Site", 1>> /\ sent[Len(sent)].answer = "200"
    /\ last.result.deleted_counts.devices = 0

(* the scenario a provisioner was last run on, when there was one *)
Ran == last.op = "provision_scenario" /\ last.config.scenario # NoEntitiesFile

RoomsWithGateways(scenario, counts) ==
    LET all == Flat(scenario.buildings)
    IN {i \in DOMAIN all : all[i].level = "rooms" /\ Len(all[i].children) \in counts}

(* C27: when a room of the scenario has no gateway or more than one,       *)
(* provision_scenario of either provisioner returns False and has sent no  *)
(* request at all, so no asset, device, relation, attribute or device      *)
(* profile was created and nothing is recorded in created_entities *)
C27_InvalidScenarioCreatesNothing ==
    (Ran /\ RoomsWithGateways(last.config.scenario, {0, 2}) # {})
        => /\ last.result = FALSE
           /\ sent = <<>>
           /\ created_entities = NoEntities

(* the enhanced provisioner was run on a scenario that declares its totals *)
(* as counted and has a room with one gateway next to a room with two *)
C27_Witness ==
    /\ Ran
    /\ last.config.tool = "enhanced"
    /\ last.config.scenario.totals = actual_counts(last.config.scenario)
    /\ RoomsWithGateways(last.config.scenario, {1}) # {}
    /\ RoomsWithGateways(last.config.scenario, {2}) # {}
    /\ last.result = FALSE /\ sent = <<>>

(* the pairs <<parent, child>> of the names of a scenario *)
Edges(scenario) ==
    LET all == Flat(<< Node("sites", scenario.site, scenario.buildings) >>)
    IN UNION { { <<all[i].name, Below(all[i])[k].name>> : k \in DOMAIN Below(all[i]) } :
                   i \in DOMAIN all }

CreateOf(name, answers) ==
    {k \in DOMAIN sent : /\ sent[k].method = "POST"
                         /\ sent[k].kind \in {"asset", "device"}
                         /\ sent[k].id = name
                         /\ sent[k].answer \in answers}

Recorded(name) ==
    \E i \in DOMAIN Levels :
        \E k \in DOMAIN created_entities[Levels[i]] : created_entities[Levels[i]][k] = name

(* every create request for the child comes after a create of the parent   *)
(* that succeeded, and the child is recorded only if the parent is *)
ParentFirst(parent, child) ==
    /\ \A k \in CreateOf(child, {"200", "400", "500"}) :
           \E j \in CreateOf(parent, {"200"}) : j < k
    /\ Recorded(child) => Recorded(parent)

(* the parent is a gateway that the enhanced provisioner did not create    *)
(* but found by name on the platform, before any create of the child *)
FoundOnPlatform(parent, child) ==
    /\ last.config.tool = "enhanced"
    /\ parent[1] = "GW"
    /\ CreateOf(parent, {"200"}) = {}
    /\ ~Recorded(parent)
    /\ \A k \in CreateOf(child, {"200", "400", "500"}) :
           \E j \in 1..(k - 1) :
               sent[j] = Exchange("GET", "lookup", parent, "found")

(* C28 as stated: in both provisioners a create request for a child is     *)
(* sent only after the create of its parent succeeded in the same run, and *)
(* every entity recorded in created_entities has its parent recorded too *)
C28_ParentFirstInBoth ==
    Ran => \A e \in Edges(last.config.scenario) : ParentFirst(e[1], e[2])

(* C28: a create request for a child is sent only after the create of its  *)
(* parent succeeded in the same run and a recorded entity has its parent   *)
(* recorded, in the basic provisioner always, and in the enhanced one but  *)
(* for the devices of a gateway whose create failed and that the lookup by *)
(* name found on the platform: these are created, and recorded, under a    *)
(* gateway that is not recorded *)
C28_ParentFirstOrGatewayFound ==
    Ran => \A e \in Edges(last.config.scenario) :
               \/ ParentFirst(e[1], e[2])
               \/ FoundOnPlatform(e[1], e[2])

(* the enhanced provisioner recorded a device under a gateway whose create *)
(* was answered 400, that it then found on the platform and did not record *)
C28_Witness ==
    /\ Ran
    /\ last.result = TRUE
    /\ \E e \in Edges(last.config.scenario) :
           /\ FoundOnPlatform(e[1], e[2])
           /\ CreateOf(e[1], {"400"}) # {}
           /\ Recorded(e[2])

====
